---- MODULE Spec2Model ----
(***************************************************************************)
(* Quiz session engine of the adaptive-learning backend                    *)
(* (clients/quiz/service.py over clients/database/quiz_repository.py).     *)
(*                                                                         *)
(* The repository is the in-memory one: three dictionaries keyed by quiz   *)
(* id, question id and session id.  A dictionary is a function whose       *)
(* DOMAIN is the set of keys present.  Question ids are uuid4 strings in   *)
(* the code; here they are the naturals 1, 2, ... drawn from a counter, so *)
(* that a fresh id differs from every id drawn before.  Wall-clock time is *)
(* the integer `now`, one unit per minute.  `last` is the response of the   *)
(* call made in the step; `inflight` holds the requests that have loaded   *)
(* their session and not yet saved it.                                     *)
(***************************************************************************)
EXTENDS Integers, Sequences, FiniteSets

VARIABLES definitions, questions, sessions, now, next_uuid, last, inflight

vars == <<definitions, questions, sessions, now, next_uuid, last, inflight>>

\* ---------------------------------------------------------------------
\* Bounds of the model
\* ---------------------------------------------------------------------
MaxQuestions == 2
MaxClock == 2
MaxPracticeQuestions == 3
MaxOverrideQuestions == 2
MaxReviewQuestions == 3
MaxFairQuestions == 12

\* ---------------------------------------------------------------------
\* Values
\* ---------------------------------------------------------------------
NoId == 0
NoTime == -1
NoCount == -1
NoText == "none"
Stamp == 1

SessionIds == {"s1"}
QuizIds == {"quiz1"}
UserIds == {"u1"}
BogusId == -1
Choices == {"A", "B"}
Modes == {"assessment", "practice"}

DifficultySequence == <<"easy", "medium", "hard">>
Levels == {DifficultySequence[i] : i \in 1..Len(DifficultySequence)}
DifficultyRank(level) == (CHOOSE i \in 1..Len(DifficultySequence) : DifficultySequence[i] = level) - 1

practice_increase_streak == 3
practice_decrease_streak == 2
slide_coverage_threshold_tenths == 7
missed_question_review_gap == 2

Max(a, b) == IF a >= b THEN a ELSE b

\* Variant: one more correct answer is needed.
increase_threshold_above ==
    Max(practice_increase_streak, 1) + 1

increase_threshold ==
    Max(practice_increase_streak, 1)

decrease_threshold ==
    Max(practice_decrease_streak, 1)

missed_review_gap ==
    missed_question_review_gap

\* ---------------------------------------------------------------------
\* Dictionaries
\* ---------------------------------------------------------------------
Put(dict, key, value) == [k \in DOMAIN dict \cup {key} |-> IF k = key THEN value ELSE dict[k]]
Pop(dict, key) == [k \in DOMAIN dict \ {key} |-> dict[k]]

Contains(seq, x) == \E i \in 1..Len(seq) : seq[i] = x
Elements(seq) == {seq[i] : i \in 1..Len(seq)}
Remove(seq, x) == SelectSeq(seq, LAMBDA y : y # x)

\* ---------------------------------------------------------------------
\* Session payloads: QuizSessionRecord.to_dict / from_dict
\* ---------------------------------------------------------------------
OptionalKeys == {"active_question_served_at", "completed_at", "deadline"}

SessionKeys ==
    {"session_id", "quiz_id", "user_id", "mode", "status", "current_difficulty",
     "correct_streak", "incorrect_streak", "attempts_used", "topics",
     "asked_question_ids", "active_question_id", "active_question_served_at",
     "completed_at", "deadline", "attempts", "is_preview", "preview_question_ids",
     "used_slide_ids", "missed_question_ids", "questions_since_review",
     "total_slide_count", "coverage_cycle", "topic_cursor", "next_question_source",
     "max_correct_streak", "max_incorrect_streak", "summary", "queued_question_id"}

to_dict(record) ==
    [k \in SessionKeys \ {o \in OptionalKeys : record[o] = NoTime} |-> record[k]]

from_dict(payload) ==
    [k \in SessionKeys |-> IF k \in DOMAIN payload THEN payload[k] ELSE NoTime]

load_session(session_id) == from_dict(sessions[session_id])

\* Variant: a save appends the newest attempt to the attempts already stored.
save_session_appending(store, record) ==
    LET payload == to_dict(record)
        sid == record.session_id
    IN IF sid \in DOMAIN store /\ store[sid].attempts # <<>> /\ payload.attempts # <<>>
       THEN Put(store, sid, [payload EXCEPT !.attempts =
                Append(store[sid].attempts, payload.attempts[Len(payload.attempts)])])
       ELSE Put(store, sid, payload)

\* InMemoryQuizRepository.save_session: the stored payload is replaced as a whole.
save_session(store, record) ==
    Put(store, record.session_id, to_dict(record))

delete_session(store, session_id) == Pop(store, session_id)

SessionExists(session_id) == session_id \in DOMAIN sessions

\* Firestore's document.set(data, merge=True): the fields of `data` overwrite, the other
\* fields of the stored document stay.
MergeSet(document, data) ==
    [k \in DOMAIN document \cup DOMAIN data |-> IF k \in DOMAIN data THEN data[k] ELSE document[k]]

\* FirestoreQuizRepository.save_session.
firestore_save_session(store, record) ==
    IF record.session_id \in DOMAIN store
    THEN Put(store, record.session_id, MergeSet(store[record.session_id], to_dict(record)))
    ELSE Put(store, record.session_id, to_dict(record))

\* ---------------------------------------------------------------------
\* Question bank
\* ---------------------------------------------------------------------
get_quiz_question(bank, question_id) == bank[question_id]
HasQuestion(bank, question_id) == question_id \in DOMAIN bank
list_quiz_questions(bank, quiz_id) == {q \in DOMAIN bank : bank[q].quiz_id = quiz_id}

\* ---------------------------------------------------------------------
\* Quiz definitions
\* ---------------------------------------------------------------------
CleanTopics(topics) ==
    LET cleaned == SelectSeq(topics, LAMBDA t : t # "" /\ t # " ")
    IN IF cleaned = <<>> THEN <<"General">> ELSE cleaned

\* The quiz of test_quiz_endpoints.py (time limit scaled to one clock unit).
TimedQuiz ==
    [topics |-> <<"algebra">>, default_mode |-> "practice", initial_difficulty |-> "medium",
     assessment_num_questions |-> 2, assessment_time_limit_minutes |-> 1,
     assessment_max_attempts |-> 3]

\* A quiz whose max attempts is below its question count, with a blank topic to clean.
CappedQuiz ==
    [topics |-> <<"algebra", " ">>, default_mode |-> "assessment", initial_difficulty |-> "easy",
     assessment_num_questions |-> 2, assessment_time_limit_minutes |-> NoCount,
     assessment_max_attempts |-> 1]

DefinitionInputs == {TimedQuiz, CappedQuiz}

\* A timed quiz long enough for a missed question to come up for review.
ReviewQuiz ==
    [topics |-> <<"algebra">>, default_mode |-> "assessment", initial_difficulty |-> "medium",
     assessment_num_questions |-> 3, assessment_time_limit_minutes |-> 1,
     assessment_max_attempts |-> NoCount]

\* A practice quiz over two topics, which start_session shuffles per session.
TwoTopicQuiz ==
    [topics |-> <<"algebra", "geometry">>, default_mode |-> "practice",
     initial_difficulty |-> "medium", assessment_num_questions |-> NoCount,
     assessment_time_limit_minutes |-> NoCount, assessment_max_attempts |-> NoCount]

\* A practice quiz generated from an embedded slide deck of slide_count slides.
SlideQuiz(slide_count) ==
    [topics |-> <<"algebra">>, default_mode |-> "practice", initial_difficulty |-> "medium",
     assessment_num_questions |-> NoCount, assessment_time_limit_minutes |-> NoCount,
     assessment_max_attempts |-> NoCount, embedding_document_id |-> "doc1",
     slide_count |-> slide_count]

Response(op, session_id, result) ==
    [op |-> op, session_id |-> session_id, result |-> result, status |-> NoText,
     question_id |-> NoId, is_correct |-> FALSE, session_completed |-> FALSE,
     current_difficulty |-> NoText, served |-> NoText, summary |-> <<>>,
     attempts |-> <<>>, generations |-> <<>>]

\* The record upsert_quiz_definition builds and saves.
QuizDefinitionRecord(quiz_id, input) ==
    [quiz_id |-> quiz_id,
     topics |-> CleanTopics(input.topics),
     default_mode |-> input.default_mode,
     initial_difficulty |-> input.initial_difficulty,
     assessment_num_questions |-> input.assessment_num_questions,
     assessment_time_limit_minutes |-> input.assessment_time_limit_minutes,
     assessment_max_attempts |-> input.assessment_max_attempts,
     embedding_document_id |-> IF "embedding_document_id" \in DOMAIN input
                               THEN input.embedding_document_id ELSE NoText,
     metadata |-> [slide_count |-> IF "slide_count" \in DOMAIN input
                                   THEN input.slide_count ELSE NoCount]]

upsert_quiz_definition(quiz_id, input) ==
    /\ definitions' = Put(definitions, quiz_id, QuizDefinitionRecord(quiz_id, input))
    /\ last' = Response("upsert_quiz_definition", NoText, "ok")
    /\ UNCHANGED <<questions, sessions, now, next_uuid, inflight>>

\* InMemoryQuizRepository.delete_quiz_definition: the definition and the sessions of the
\* quiz are dropped; the question dictionary is not touched.
delete_quiz_definition(quiz_id) ==
    /\ definitions' = Pop(definitions, quiz_id)
    /\ sessions' = [sid \in {k \in DOMAIN sessions : sessions[k].quiz_id # quiz_id} |-> sessions[sid]]
    /\ last' = Response("delete_quiz_definition", NoText, "ok")
    /\ UNCHANGED <<questions, now, next_uuid, inflight>>

\* The DELETE /quiz/definitions/{quiz_id} route: 404 unless the definition exists.
quiz_delete_definition(quiz_id) ==
    IF quiz_id \notin DOMAIN definitions
    THEN /\ last' = Response("delete_quiz_definition", NoText, "DefinitionNotFound")
         /\ UNCHANGED <<definitions, questions, sessions, now, next_uuid, inflight>>
    ELSE delete_quiz_definition(quiz_id)

\* ---------------------------------------------------------------------
\* Time
\* ---------------------------------------------------------------------
\* The clock is read only against the deadline of an open session, so it advances
\* only while there is one whose deadline it has not yet passed.
Tick ==
    /\ now < MaxClock
    /\ \E session_id \in DOMAIN sessions :
          LET record == from_dict(sessions[session_id])
          IN /\ record.status = "in_progress"
             /\ record.deadline # NoTime
             /\ now <= record.deadline
    /\ now' = now + 1
    /\ last' = Response("tick", NoText, "ok")
    /\ UNCHANGED <<definitions, questions, sessions, next_uuid, inflight>>

\* ---------------------------------------------------------------------
\* Session lifecycle
\* ---------------------------------------------------------------------
Shuffles(seq) ==
    IF Len(seq) = 2 THEN {seq, <<seq[2], seq[1]>>} ELSE {seq}

NewSession(session_id, quiz_id, user_id, mode, difficulty, deadline, topics, is_preview) ==
    [session_id |-> session_id,
     quiz_id |-> quiz_id,
     user_id |-> user_id,
     mode |-> mode,
     status |-> "in_progress",
     current_difficulty |-> difficulty,
     correct_streak |-> 0,
     incorrect_streak |-> 0,
     attempts_used |-> 0,
     topics |-> topics,
     asked_question_ids |-> <<>>,
     active_question_id |-> NoId,
     active_question_served_at |-> NoTime,
     completed_at |-> NoTime,
     deadline |-> deadline,
     attempts |-> <<>>,
     is_preview |-> is_preview,
     preview_question_ids |-> <<>>,
     used_slide_ids |-> <<>>,
     missed_question_ids |-> <<>>,
     questions_since_review |-> 0,
     total_slide_count |-> NoCount,
     coverage_cycle |-> 0,
     topic_cursor |-> 0,
     next_question_source |-> "existing",
     max_correct_streak |-> 0,
     max_incorrect_streak |-> 0,
     summary |-> <<>>,
     queued_question_id |-> NoId]

\* Variant: any stored session with this id counts, whatever its status.
InProgressExists_any_status(session_id) ==
    SessionExists(session_id)

\* start_session's check that a session with this id is in progress.
InProgressExists(session_id) ==
    SessionExists(session_id) /\ load_session(session_id).status = "in_progress"

_extract_total_slide_count(metadata) ==
    IF metadata.slide_count # NoCount /\ metadata.slide_count > 0
    THEN metadata.slide_count ELSE NoCount

start_session(session_id, quiz_id, user_id, mode, initial_difficulty, is_preview) ==
    /\ UNCHANGED <<definitions, questions, now, next_uuid, inflight>>
    /\ IF InProgressExists(session_id)
       THEN /\ last' = Response("start_session", session_id, "Conflict")
            /\ UNCHANGED sessions
       ELSE IF quiz_id \notin DOMAIN definitions
       THEN /\ last' = Response("start_session", session_id, "DefinitionNotFound")
            /\ UNCHANGED sessions
       ELSE LET definition == definitions[quiz_id]
                selected_mode == IF mode # NoText THEN mode ELSE definition.default_mode
                difficulty == IF initial_difficulty # NoText THEN initial_difficulty
                              ELSE definition.initial_difficulty
                deadline == IF selected_mode = "assessment"
                               /\ definition.assessment_time_limit_minutes # NoCount
                               /\ definition.assessment_time_limit_minutes # 0
                            THEN now + definition.assessment_time_limit_minutes
                            ELSE NoTime
            IN IF selected_mode = "assessment" /\ definition.assessment_num_questions = NoCount
               THEN /\ last' = Response("start_session", session_id, "ValidationError")
                    /\ UNCHANGED sessions
               ELSE \E session_topics \in Shuffles(definition.topics) :
                      /\ sessions' = save_session(sessions,
                            [NewSession(session_id, quiz_id, user_id, selected_mode, difficulty,
                                        deadline, session_topics, is_preview)
                                EXCEPT !.total_slide_count =
                                           _extract_total_slide_count(definition.metadata)])
                      /\ last' = [Response("start_session", session_id, "ok") EXCEPT
                                     !.status = "in_progress", !.current_difficulty = difficulty]

\* ---------------------------------------------------------------------
\* Completion, summary, time limit
\* ---------------------------------------------------------------------
\* Variant: completing a session also drops its asked-question history.
_mark_completed_forgetful(record, status) ==
    [record EXCEPT !.status = status,
                   !.completed_at = Stamp,
                   !.active_question_id = NoId,
                   !.active_question_served_at = NoTime,
                   !.queued_question_id = NoId,
                   !.asked_question_ids = <<>>]

_mark_completed(record, status) ==
    [record EXCEPT !.status = status,
                   !.completed_at = Stamp,
                   !.active_question_id = NoId,
                   !.active_question_served_at = NoTime,
                   !.queued_question_id = NoId]

CountCorrect(attempts) == Cardinality({i \in 1..Len(attempts) : attempts[i].is_correct})

\* The topic _build_summary files an attempt under.
AttemptTopic(bank, attempt) ==
    IF attempt.question_id \in DOMAIN bank THEN bank[attempt.question_id].topic ELSE "general"

\* Variant: attempts whose question is gone from the bank are left out.
PerTopic_resolved_only(record) ==
    LET attempts == record.attempts
        found == {i \in 1..Len(attempts) : attempts[i].question_id \in DOMAIN questions}
    IN [topic \in {AttemptTopic(questions, attempts[i]) : i \in found} |->
           [attempted |-> Cardinality({i \in found : AttemptTopic(questions, attempts[i]) = topic}),
            correct |-> Cardinality({i \in found : AttemptTopic(questions, attempts[i]) = topic
                                                    /\ attempts[i].is_correct})]]

\* The per_topic dictionary of _build_summary.
PerTopic(record) ==
    LET attempts == record.attempts
        all == 1..Len(attempts)
    IN [topic \in {AttemptTopic(questions, attempts[i]) : i \in all} |->
           [attempted |-> Cardinality({i \in all : AttemptTopic(questions, attempts[i]) = topic}),
            correct |-> Cardinality({i \in all : AttemptTopic(questions, attempts[i]) = topic
                                                  /\ attempts[i].is_correct})]]

\* Variant: only the correct attempts are counted as questions.
_build_summary_correct_only(record) ==
    [status |-> record.status,
     total_questions |-> CountCorrect(record.attempts),
     correct_answers |-> CountCorrect(record.attempts),
     topics |-> PerTopic(record),
     max_correct_streak |-> record.max_correct_streak,
     max_incorrect_streak |-> record.max_incorrect_streak,
     completed_at |-> record.completed_at]

_build_summary(record) ==
    [status |-> record.status,
     total_questions |-> Len(record.attempts),
     correct_answers |-> CountCorrect(record.attempts),
     topics |-> PerTopic(record),
     max_correct_streak |-> record.max_correct_streak,
     max_incorrect_streak |-> record.max_incorrect_streak,
     completed_at |-> record.completed_at]

DeadlinePassed(record, time) == record.deadline # NoTime /\ time > record.deadline

\* Variant: the deadline check without the in_progress guard.
TimesOut_any_status(record) ==
    record.mode = "assessment" /\ DeadlinePassed(record, now)

TimesOut(record) ==
    record.mode = "assessment" /\ record.status = "in_progress" /\ DeadlinePassed(record, now)

\* Variant: the deadline is not enforced.
_enforce_time_constraints_skipped(record) ==
    record

_enforce_time_constraints(record) ==
    IF TimesOut(record) THEN _mark_completed(record, "timed_out") ELSE record

\* The store after _enforce_time_constraints: it saves only when it times the session out.
StoreAfterEnforce(record) ==
    IF TimesOut(record) THEN save_session(sessions, _enforce_time_constraints(record)) ELSE sessions

\* ---------------------------------------------------------------------
\* Difficulty adaptation and streaks
\* ---------------------------------------------------------------------
\* Variant: a correct streak promotes straight to the top level.
_adapt_difficulty_jump(current, correct_streak, incorrect_streak) ==
    LET index == DifficultyRank(current)
    IN IF correct_streak >= increase_threshold /\ index < Len(DifficultySequence) - 1
       THEN DifficultySequence[Len(DifficultySequence)]
       ELSE IF incorrect_streak >= decrease_threshold /\ index > 0
       THEN DifficultySequence[index]
       ELSE current

_adapt_difficulty(current, correct_streak, incorrect_streak) ==
    LET index == DifficultyRank(current)
    IN IF correct_streak >= increase_threshold /\ index < Len(DifficultySequence) - 1
       THEN DifficultySequence[index + 2]
       ELSE IF incorrect_streak >= decrease_threshold /\ index > 0
       THEN DifficultySequence[index]
       ELSE current

\* Length of the run of attempts matching target_correct that ends at position i.
RunEndingAt(attempts, i, target_correct) ==
    LET breaks == {j \in 1..i : attempts[j].is_correct # target_correct}
        last_break == IF breaks = {} THEN 0 ELSE CHOOSE j \in breaks : \A k \in breaks : k <= j
    IN i - last_break

\* Variant: the run the attempt list ends with, instead of the longest one.
_calculate_max_streak_trailing(attempts, target_correct) ==
    IF attempts = <<>> THEN 0 ELSE RunEndingAt(attempts, Len(attempts), target_correct)

_calculate_max_streak(attempts, target_correct) ==
    LET runs == {RunEndingAt(attempts, i, target_correct) : i \in 1..Len(attempts)} \cup {0}
    IN CHOOSE best \in runs : \A r \in runs : r <= best

\* ---------------------------------------------------------------------
\* submit_answer
\* ---------------------------------------------------------------------
\* Variant: the attempt is appended without counting it.
RecordAttempt_uncounted(record, attempt) ==
    [record EXCEPT !.attempts = Append(record.attempts, attempt)]

\* The attempt list and the attempt counter after one more attempt.
RecordAttempt(record, attempt) ==
    [record EXCEPT !.attempts = Append(record.attempts, attempt),
                   !.attempts_used = record.attempts_used + 1]

\* Variant: a change of difficulty leaves the streak that caused it.
StreakAfterAdapt_kept(practice, changed, opposite_answer, streak) ==
    IF practice /\ opposite_answer THEN 0 ELSE streak

\* submit_answer's practice-mode resets of one streak counter: to 0 when
\* that streak moved the difficulty, and to 0 when the answer was of the
\* opposite kind.
StreakAfterAdapt(practice, changed, opposite_answer, streak) ==
    IF practice /\ (changed \/ opposite_answer) THEN 0 ELSE streak

\* The record submit_answer builds before the assessment termination checks.
Graded(record, question, selected_answer) ==
    LET is_correct == selected_answer = question.correct_answer
        attempt == [question_id |-> question.question_id,
                    selected_answer |-> selected_answer,
                    is_correct |-> is_correct]
        attempts == Append(record.attempts, attempt)
        correct_streak0 == IF is_correct THEN record.correct_streak + 1 ELSE 0
        incorrect_streak0 == IF ~is_correct THEN record.incorrect_streak + 1 ELSE 0
        missed0 == record.missed_question_ids
        missed1 == IF is_correct /\ Contains(missed0, question.question_id)
                   THEN Remove(missed0, question.question_id) ELSE missed0
        missed2 == IF ~is_correct /\ ~Contains(missed1, question.question_id)
                   THEN Append(missed1, question.question_id) ELSE missed1
        practice == record.mode = "practice"
        adapted == IF practice
                   THEN _adapt_difficulty(record.current_difficulty, correct_streak0, incorrect_streak0)
                   ELSE record.current_difficulty
        promoted == DifficultyRank(adapted) > DifficultyRank(record.current_difficulty)
        demoted == DifficultyRank(adapted) < DifficultyRank(record.current_difficulty)
        correct_streak == StreakAfterAdapt(practice, promoted, ~is_correct, correct_streak0)
        incorrect_streak == StreakAfterAdapt(practice, demoted, is_correct, incorrect_streak0)
    IN [RecordAttempt(record, attempt) EXCEPT
                      !.correct_streak = correct_streak,
                      !.incorrect_streak = incorrect_streak,
                      !.current_difficulty = adapted,
                      !.active_question_id = NoId,
                      !.active_question_served_at = NoTime,
                      !.missed_question_ids = missed2,
                      !.max_correct_streak = _calculate_max_streak(attempts, TRUE),
                      !.max_incorrect_streak = _calculate_max_streak(attempts, FALSE)]

\* Variant: the question count has to be exceeded.
ReachedQuestionCount_strict(updated, definition) ==
    /\ definition.assessment_num_questions # NoCount
    /\ definition.assessment_num_questions # 0
    /\ Len(updated.attempts) > definition.assessment_num_questions

\* submit_answer's test that the assessment has its configured number of attempts.
ReachedQuestionCount(updated, definition) ==
    /\ definition.assessment_num_questions # NoCount
    /\ definition.assessment_num_questions # 0
    /\ Len(updated.attempts) >= definition.assessment_num_questions

\* Assessment termination checks of submit_answer; `later` is the clock at the final deadline check.
Terminated(updated, definition, later) ==
    LET by_count == ReachedQuestionCount(updated, definition)
        after_count == IF by_count THEN _mark_completed(updated, "completed") ELSE updated
        by_max == /\ definition.assessment_max_attempts # NoCount
                  /\ after_count.attempts_used >= definition.assessment_max_attempts
                  /\ after_count.status = "in_progress"
        after_max == IF by_max THEN _mark_completed(after_count, "completed") ELSE after_count
        completed == by_count \/ by_max
    IN IF ~completed /\ DeadlinePassed(after_max, later)
       THEN _mark_completed(after_max, "timed_out")
       ELSE after_max

WithSummary(record) ==
    IF record.status # "in_progress" THEN [record EXCEPT !.summary = _build_summary(record)] ELSE record

\* Variant: no attempt is ever found.
already_answered_never(record, question_id) ==
    FALSE

already_answered(record, question_id) ==
    \E i \in 1..Len(record.attempts) : record.attempts[i].question_id = question_id

\* A failed submit_answer call: the error raised, with the question id of the request.
SubmitFailure(session_id, question_id, result) ==
    [Response("submit_answer", session_id, result) EXCEPT !.question_id = question_id]

\* submit_answer from the point where the session record has been loaded.
submit_loaded(session_id, loaded, question_id, selected_answer, later) ==
            LET record == _enforce_time_constraints(loaded)
            IN IF record.status # "in_progress"
               THEN /\ last' = [SubmitFailure(session_id, question_id, "Closed") EXCEPT !.status = record.status]
                    /\ sessions' = StoreAfterEnforce(loaded)
                    /\ UNCHANGED now
               ELSE IF ~HasQuestion(questions, question_id)
               THEN /\ last' = SubmitFailure(session_id, question_id, "QuestionNotFound")
                    /\ UNCHANGED <<sessions, now>>
               ELSE IF already_answered(record, question_id)
               THEN /\ last' = SubmitFailure(session_id, question_id, "AlreadyAnswered")
                    /\ UNCHANGED <<sessions, now>>
               ELSE IF record.mode = "assessment" /\ record.quiz_id \notin DOMAIN definitions
               THEN /\ last' = SubmitFailure(session_id, question_id, "DefinitionNotFound")
                    /\ UNCHANGED <<sessions, now>>
               ELSE LET question == get_quiz_question(questions, question_id)
                        graded == Graded(record, question, selected_answer)
                        updated == IF record.mode = "assessment"
                                   THEN Terminated(graded, definitions[record.quiz_id], later)
                                   ELSE graded
                        stored == WithSummary(updated)
                    IN /\ sessions' = save_session(sessions, stored)
                       /\ now' = IF record.mode = "assessment" THEN later ELSE now
                       /\ last' = [Response("submit_answer", session_id, "ok") EXCEPT
                                      !.question_id = question.question_id,
                                      !.is_correct = graded.attempts[Len(graded.attempts)].is_correct,
                                      !.session_completed = stored.status # "in_progress",
                                      !.status = stored.status,
                                      !.current_difficulty = stored.current_difficulty,
                                      !.summary = IF stored.status # "in_progress"
                                                  THEN stored.summary ELSE <<>>]

submit_answer(session_id, question_id, selected_answer, later) ==
    /\ UNCHANGED <<definitions, questions, next_uuid, inflight>>
    /\ IF ~SessionExists(session_id)
       THEN /\ last' = SubmitFailure(session_id, question_id, "SessionNotFound")
            /\ UNCHANGED <<sessions, now>>
       ELSE submit_loaded(session_id, load_session(session_id), question_id, selected_answer, later)

\* ---------------------------------------------------------------------
\* get_next_question
\* ---------------------------------------------------------------------
Lower(topic) ==
    CASE topic = "Geometry" -> "geometry"
      [] topic = "General" -> "general"
      [] OTHER -> topic

\* Variant: the cursor counts the serves without wrapping around the topic list.
_resolve_topic_unwrapped(record, definition, topic_override) ==
    IF topic_override # NoText
    THEN [topic |-> topic_override, next_cursor |-> record.topic_cursor, override_supplied |-> TRUE]
    ELSE LET topics == IF record.topics # <<>> THEN record.topics
                       ELSE IF definition.topics # <<>> THEN definition.topics ELSE <<"General">>
             cursor == record.topic_cursor % Len(topics)
         IN [topic |-> topics[cursor + 1],
             next_cursor |-> record.topic_cursor + 1,
             override_supplied |-> FALSE]

_resolve_topic(record, definition, topic_override) ==
    IF topic_override # NoText
    THEN [topic |-> topic_override, next_cursor |-> record.topic_cursor, override_supplied |-> TRUE]
    ELSE LET topics == IF record.topics # <<>> THEN record.topics
                       ELSE IF definition.topics # <<>> THEN definition.topics ELSE <<"General">>
             cursor == record.topic_cursor % Len(topics)
         IN [topic |-> topics[cursor + 1],
             next_cursor |-> (cursor + 1) % Len(topics),
             override_supplied |-> FALSE]

\* The questions _select_existing_question may return from the shuffled candidates.
_select_existing_question(bank, candidates, preferred_topic) ==
    LET matching == {q \in candidates : Lower(bank[q].topic) = Lower(preferred_topic)}
    IN IF matching # {} THEN matching ELSE candidates

\* Variant: reuse goes on for as long as unused bank questions remain.
_determine_next_question_source_greedy(record, used_existing, remaining_existing) ==
    IF record.is_preview THEN "generated"
    ELSE IF remaining_existing # {} THEN "existing"
    ELSE "generated"

_determine_next_question_source(record, used_existing, remaining_existing) ==
    IF record.is_preview THEN "generated"
    ELSE IF used_existing THEN "generated"
    ELSE IF remaining_existing # {} THEN "existing"
    ELSE "generated"

\* The slides of the embedded document in the vector index.
SlideIndex == {"slide-1", "slide-2"}

\* What _create_question gets when no retriever is configured, the definition has no
\* embedded document, or the retriever raises.
NoContext == [slide |-> NoText, coverage_reset |-> FALSE]

\* fetch's ratio >= coverage_threshold, the threshold in tenths.
CoverageReached(exclude_set, total_slide_count) ==
    /\ total_slide_count # NoCount
    /\ total_slide_count > 0
    /\ 10 * Cardinality(exclude_set) >= slide_coverage_threshold_tenths * total_slide_count

\* SlideContextRetriever.fetch: the slide of the first context (NoText when no context
\* with text came back) and the coverage-reset flag. The filtered query returns any part
\* of the index outside the excluded slides; when it returns nothing the query is repeated
\* unfiltered and the flag is set.
fetch(exclude_slide_ids, total_slide_count) ==
    LET exclude_set == Elements(exclude_slide_ids)
        reached == CoverageReached(exclude_set, total_slide_count)
        apply_filter == exclude_set # {} /\ ~reached
        first_query == IF apply_filter THEN SlideIndex \ exclude_set ELSE SlideIndex
    IN {[slide |-> slide, coverage_reset |-> reached] : slide \in first_query \cup {NoText}}
       \cup (IF apply_filter
             THEN {[slide |-> slide, coverage_reset |-> TRUE] : slide \in SlideIndex \cup {NoText}}
             ELSE {})

\* The contexts _create_question may work with.
RetrieverOutcomes(definition, session) ==
    IF definition.embedding_document_id = NoText
    THEN {NoContext}
    ELSE fetch(session.used_slide_ids, session.total_slide_count) \cup {NoContext}

\* The question _create_question saves when the generator succeeds.
_create_question(session, question_id, topic, difficulty, slide_id) ==
    [quiz_id |-> session.quiz_id,
     question_id |-> question_id,
     correct_answer |-> "A",
     topic |-> topic,
     difficulty |-> difficulty,
     source_session_id |-> session.session_id,
     slide_id |-> slide_id]

\* Variant: the coverage reset forgets to advance the cycle.
CoverageReset_same_cycle(session) ==
    [session EXCEPT !.used_slide_ids = <<>>]

\* _create_question's reset of the used slides.
CoverageReset(session) ==
    [session EXCEPT !.used_slide_ids = <<>>, !.coverage_cycle = session.coverage_cycle + 1]

\* The session state _create_question returns next to the question.
_create_question_state(session, context) ==
    LET session_state == IF context.coverage_reset /\ session.used_slide_ids # <<>>
                         THEN CoverageReset(session) ELSE session
    IN IF context.slide # NoText /\ ~Contains(session_state.used_slide_ids, context.slide)
       THEN [session_state EXCEPT !.used_slide_ids = Append(session_state.used_slide_ids, context.slide)]
       ELSE session_state

_register_slide_usage(record, question) ==
    IF question.slide_id = NoText \/ Contains(record.used_slide_ids, question.slide_id)
    THEN record
    ELSE [record EXCEPT !.used_slide_ids = Append(record.used_slide_ids, question.slide_id)]

\* What one successful _create_question call did to the session, for the response log.
GenerationEntry(question_id, before, after, context) ==
    [question_id |-> question_id, coverage_reset |-> context.coverage_reset,
     used_before |-> before.used_slide_ids, cycle_before |-> before.coverage_cycle,
     used_after |-> after.used_slide_ids, cycle_after |-> after.coverage_cycle]

\* Variant: the clone keeps the id of the question it copies.
_duplicate_question_for_review_same_id(question, question_id) ==
    question

\* The clone _duplicate_question_for_review builds under a fresh id.
_duplicate_question_for_review(question, question_id) ==
    [question EXCEPT !.question_id = question_id]

\* Variant: a missed question is replayed at once, whatever was served since the last review.
ReviewDue_ungapped(record) ==
    record.missed_question_ids # <<>>

ReviewDue(record) ==
    record.missed_question_ids # <<>> /\ record.questions_since_review >= missed_review_gap

\* Position in the missed queue of the first id that still resolves in the bank (0: none).
FirstResolvable(bank, queue) ==
    LET hits == {i \in 1..Len(queue) : HasQuestion(bank, queue[i])}
    IN IF hits = {} THEN 0 ELSE CHOOSE i \in hits : \A j \in hits : i <= j

\* Variant: the clone is served, and the missed question keeps its place in the queue.
ServeReview_requeued(session_id, record, position, uuid_limit) ==
    LET queue == record.missed_question_ids
        clone == _duplicate_question_for_review(get_quiz_question(questions, queue[position]), next_uuid)
        updated_record == [record EXCEPT
            !.questions_since_review = 0,
            !.asked_question_ids = Append(record.asked_question_ids, clone.question_id),
            !.active_question_id = clone.question_id,
            !.active_question_served_at = Stamp]
    IN /\ next_uuid <= uuid_limit
       /\ questions' = Put(questions, clone.question_id, clone)
       /\ sessions' = save_session(sessions, updated_record)
       /\ next_uuid' = next_uuid + 1
       /\ last' = [Response("get_next_question", session_id, "ok") EXCEPT
                      !.question_id = clone.question_id, !.served = "review"]

\* _serve_missed_question_if_ready when it serves a clone of queue[position].
ServeReview(session_id, record, position, uuid_limit) ==
    LET queue == record.missed_question_ids
        clone == _duplicate_question_for_review(get_quiz_question(questions, queue[position]), next_uuid)
        updated_record == [record EXCEPT
            !.missed_question_ids = SubSeq(queue, position + 1, Len(queue)),
            !.questions_since_review = 0,
            !.asked_question_ids = Append(record.asked_question_ids, clone.question_id),
            !.active_question_id = clone.question_id,
            !.active_question_served_at = Stamp]
    IN /\ next_uuid <= uuid_limit
       /\ questions' = Put(questions, clone.question_id, clone)
       /\ sessions' = save_session(sessions, updated_record)
       /\ next_uuid' = next_uuid + 1
       /\ last' = [Response("get_next_question", session_id, "ok") EXCEPT
                      !.question_id = clone.question_id, !.served = "review"]

\* Variant: the record built so far is saved before the error is raised.
GenerationFailed_saved(session_id, record) ==
    /\ last' = Response("get_next_question", session_id, "GenerationError")
    /\ sessions' = save_session(sessions,
                       [record EXCEPT !.questions_since_review = record.questions_since_review + 1])
    /\ UNCHANGED <<questions, next_uuid>>

\* get_next_question when _create_question raises QuizGenerationError: `record` is the
\* session as changed in memory so far, and none of it is saved.
GenerationFailed(session_id, record) ==
    /\ last' = Response("get_next_question", session_id, "GenerationError")
    /\ UNCHANGED <<sessions, questions, next_uuid>>

\* Variant: a preview session may reuse bank questions too.
ShouldUseExisting_any_session(record, available_existing) ==
    /\ record.next_question_source = "existing"
    /\ available_existing # {}

\* get_next_question's should_use_existing, evaluated when no queued question was selected.
ShouldUseExisting(record, available_existing) ==
    /\ ~record.is_preview
    /\ record.next_question_source = "existing"
    /\ available_existing # {}

\* Variant: a failed pre-generation takes the save of the served question with it.
ServedOnly_unsaved(bank, uuid, updated_record, response) ==
    /\ questions' = bank
    /\ next_uuid' = uuid
    /\ sessions' = sessions
    /\ last' = response

\* The end of get_next_question when _maybe_queue_generated_question returns the record as
\* it is: nothing to queue, or _create_question raised QuizGenerationError and the error
\* was swallowed. The session was saved with the served question before.
ServedOnly(bank, uuid, updated_record, response) ==
    /\ questions' = bank
    /\ next_uuid' = uuid
    /\ sessions' = save_session(sessions, updated_record)
    /\ last' = response

\* get_next_question from the definition lookup on: queued, reused or generated question,
\* the session update, and the opportunistic pre-generation (_maybe_queue_generated_question).
ServeNew(session_id, record, topic_override, difficulty_override, uuid_limit) ==
    IF record.quiz_id \notin DOMAIN definitions
    THEN /\ last' = Response("get_next_question", session_id, "DefinitionNotFound")
         /\ UNCHANGED <<sessions, questions, next_uuid>>
    ELSE
    LET definition == definitions[record.quiz_id]
        question_bank == list_quiz_questions(questions, record.quiz_id)
        available_existing == {q \in question_bank :
                                  ~Contains(record.asked_question_ids, q) /\ q # record.queued_question_id}
        resolved == _resolve_topic(record, definition, topic_override)
        effective_difficulty == IF difficulty_override # NoText THEN difficulty_override
                                ELSE record.current_difficulty
        queued_selected == record.queued_question_id # NoId
                           /\ HasQuestion(questions, record.queued_question_id)
        unqueued == [record EXCEPT !.queued_question_id = NoId]
        should_use_existing == ~queued_selected /\ ShouldUseExisting(record, available_existing)
        generating == ~queued_selected /\ ~should_use_existing
        Served(pick, context) ==
       LET selected_id == IF queued_selected THEN record.queued_question_id
                          ELSE IF should_use_existing THEN pick ELSE next_uuid
           bank1 == IF generating
                    THEN Put(questions, next_uuid,
                             _create_question(unqueued, next_uuid, resolved.topic,
                                              effective_difficulty, context.slide))
                    ELSE questions
           uuid1 == IF generating THEN next_uuid + 1 ELSE next_uuid
           selected == bank1[selected_id]
           session_state == IF generating THEN _create_question_state(unqueued, context)
                            ELSE IF should_use_existing THEN _register_slide_usage(unqueued, selected)
                            ELSE unqueued
           served_log == IF generating
                         THEN <<GenerationEntry(next_uuid, unqueued, session_state, context)>> ELSE <<>>
           remaining_existing == available_existing \ {selected_id}
           next_difficulty_state == IF session_state.is_preview THEN selected.difficulty
                                    ELSE session_state.current_difficulty
           preview_question_ids ==
               IF /\ session_state.is_preview
                  /\ selected.source_session_id = session_state.session_id
                  /\ ~Contains(session_state.preview_question_ids, selected_id)
               THEN Append(session_state.preview_question_ids, selected_id)
               ELSE session_state.preview_question_ids
           next_cursor_value == IF resolved.override_supplied THEN session_state.topic_cursor
                                ELSE resolved.next_cursor
           next_source_value == _determine_next_question_source(
                                    session_state, should_use_existing, remaining_existing)
           updated_record == [session_state EXCEPT
               !.asked_question_ids = Append(session_state.asked_question_ids, selected_id),
               !.active_question_id = selected_id,
               !.active_question_served_at = Stamp,
               !.current_difficulty = next_difficulty_state,
               !.preview_question_ids = preview_question_ids,
               !.questions_since_review = session_state.questions_since_review + 1,
               !.topic_cursor = next_cursor_value,
               !.next_question_source = next_source_value]
           queueing == /\ ~updated_record.is_preview
                       /\ updated_record.status = "in_progress"
                       /\ next_source_value = "generated"
                       /\ updated_record.queued_question_id = NoId
           queue_topic == definition.topics[(next_cursor_value % Len(definition.topics)) + 1]
           response == [Response("get_next_question", session_id, "ok") EXCEPT
                           !.question_id = selected_id,
                           !.served = IF queued_selected THEN "queued"
                                      ELSE IF should_use_existing THEN "existing" ELSE "generated"]
       IN \/ /\ queueing
             /\ uuid1 <= uuid_limit
             /\ \E queue_context \in RetrieverOutcomes(definition, updated_record) :
                   LET queued_question == _create_question(updated_record, uuid1, queue_topic,
                                              updated_record.current_difficulty, queue_context.slide)
                       queued_state == _create_question_state(updated_record, queue_context)
                   IN /\ questions' = Put(bank1, uuid1, queued_question)
                      /\ next_uuid' = uuid1 + 1
                      /\ sessions' = save_session(sessions,
                                        [queued_state EXCEPT !.queued_question_id = uuid1])
                      /\ last' = [response EXCEPT !.generations =
                                     Append(served_log,
                                            GenerationEntry(uuid1, updated_record, queued_state, queue_context))]
          \/ ServedOnly(bank1, uuid1, updated_record,
                        [response EXCEPT !.generations = served_log])
    IN IF should_use_existing
       THEN \E pick \in _select_existing_question(questions, available_existing, resolved.topic) :
               Served(pick, NoContext)
       ELSE IF queued_selected
       THEN Served(NoId, NoContext)
       ELSE \/ GenerationFailed(session_id, unqueued)
            \/ /\ next_uuid <= uuid_limit
               /\ \E context \in RetrieverOutcomes(definition, unqueued) :
                     Served(NoId, context)

\* Variant: the outstanding question is never found.
OutstandingResolves_never(record) ==
    FALSE

\* get_next_question's test that the outstanding question can be returned again.
OutstandingResolves(record) ==
    record.active_question_id # NoId /\ HasQuestion(questions, record.active_question_id)

get_next_question(session_id, topic_override, difficulty_override, uuid_limit) ==
    /\ UNCHANGED <<definitions, now, inflight>>
    /\ IF ~SessionExists(session_id)
       THEN /\ last' = Response("get_next_question", session_id, "SessionNotFound")
            /\ UNCHANGED <<sessions, questions, next_uuid>>
       ELSE
       LET loaded == load_session(session_id)
           record == _enforce_time_constraints(loaded)
       IN IF record.status # "in_progress"
          THEN /\ last' = [Response("get_next_question", session_id, "Closed") EXCEPT !.status = record.status]
               /\ sessions' = StoreAfterEnforce(loaded)
               /\ UNCHANGED <<questions, next_uuid>>
          ELSE IF OutstandingResolves(record)
          THEN /\ last' = [Response("get_next_question", session_id, "ok") EXCEPT
                              !.question_id = record.active_question_id, !.served = "outstanding"]
               /\ UNCHANGED <<sessions, questions, next_uuid>>
          ELSE
          LET cleared == IF record.active_question_id # NoId
                         THEN [record EXCEPT !.active_question_id = NoId,
                                             !.active_question_served_at = NoTime]
                         ELSE record
              review_tried == ~cleared.is_preview /\ ReviewDue(cleared)
              position == FirstResolvable(questions, cleared.missed_question_ids)
          IN IF review_tried /\ position # 0
             THEN ServeReview(session_id, cleared, position, uuid_limit)
             ELSE ServeNew(session_id,
                           IF review_tried THEN [cleared EXCEPT !.missed_question_ids = <<>>] ELSE cleared,
                           topic_override, difficulty_override, uuid_limit)

\* ---------------------------------------------------------------------
\* end_session and deletion
\* ---------------------------------------------------------------------
\* The bank after _cleanup_preview deleted the session's preview questions.
\* Variant: the preview questions stay in the bank.
CleanedBank_kept(record) ==
    questions

CleanedBank(record) ==
    [q \in {k \in DOMAIN questions : ~Contains(record.preview_question_ids, k)} |-> questions[q]]

_cleanup_preview(record) ==
    /\ questions' = CleanedBank(record)
    /\ sessions' = delete_session(sessions, record.session_id)

end_session(session_id) ==
    /\ UNCHANGED <<definitions, now, next_uuid, inflight>>
    /\ IF ~SessionExists(session_id)
       THEN /\ last' = Response("end_session", session_id, "SessionNotFound")
            /\ UNCHANGED <<sessions, questions>>
       ELSE LET record == load_session(session_id)
                completed == IF record.status = "in_progress"
                             THEN _mark_completed(record, "completed") ELSE record
                summary == _build_summary(completed)
                updated_record == [completed EXCEPT !.summary = summary]
            IN /\ last' = [Response("end_session", session_id, "ok") EXCEPT
                              !.status = summary.status, !.summary = summary]
               /\ IF updated_record.is_preview
                  THEN _cleanup_preview(updated_record)
                  ELSE IF updated_record.attempts = <<>>
                  THEN /\ sessions' = delete_session(sessions, session_id)
                       /\ UNCHANGED questions
                  ELSE /\ sessions' = save_session(sessions, updated_record)
                       /\ UNCHANGED questions

\* Variant: the preview-only path without its is_preview test.
delete_preview_session_unchecked(session_id) ==
    /\ UNCHANGED <<definitions, now, next_uuid, inflight>>
    /\ IF ~SessionExists(session_id)
       THEN /\ last' = Response("delete_preview_session", session_id, "SessionNotFound")
            /\ UNCHANGED <<sessions, questions>>
       ELSE /\ last' = Response("delete_preview_session", session_id, "ok")
            /\ _cleanup_preview(load_session(session_id))

delete_preview_session(session_id) ==
    /\ UNCHANGED <<definitions, now, next_uuid, inflight>>
    /\ IF ~SessionExists(session_id)
       THEN /\ last' = Response("delete_preview_session", session_id, "SessionNotFound")
            /\ UNCHANGED <<sessions, questions>>
       ELSE LET record == load_session(session_id)
            IN IF ~record.is_preview
               THEN /\ last' = Response("delete_preview_session", session_id, "Conflict")
                    /\ UNCHANGED <<sessions, questions>>
               ELSE /\ last' = Response("delete_preview_session", session_id, "ok")
                    /\ _cleanup_preview(record)

delete_session_record(session_id, user_id) ==
    /\ UNCHANGED <<definitions, now, next_uuid, inflight>>
    /\ IF ~SessionExists(session_id)
       THEN /\ last' = Response("delete_session_record", session_id, "SessionNotFound")
            /\ UNCHANGED <<sessions, questions>>
       ELSE LET record == load_session(session_id)
            IN IF user_id # NoText /\ user_id # "" /\ record.user_id # user_id
               THEN /\ last' = Response("delete_session_record", session_id, "Conflict")
                    /\ UNCHANGED <<sessions, questions>>
               ELSE /\ last' = Response("delete_session_record", session_id, "ok")
                    /\ IF record.is_preview
                       THEN _cleanup_preview(record)
                       ELSE /\ sessions' = delete_session(sessions, session_id)
                            /\ UNCHANGED questions

\* ---------------------------------------------------------------------
\* Session review
\* ---------------------------------------------------------------------
\* _ensure_summary_cached: a summary already on the record is returned as it is,
\* otherwise one is built and the record saved with it.
_ensure_summary_cached(record) ==
    IF record.summary # <<>> THEN record
    ELSE [record EXCEPT !.summary = _build_summary(record)]

\* _build_attempt_review: the attempts whose question still resolves in the bank.
_build_attempt_review(record) ==
    SelectSeq(record.attempts, LAMBDA attempt : HasQuestion(questions, attempt.question_id))

\* The `if user_id and record.user_id != user_id` test of review and deletion.
OwnerMismatch(record, user_id) ==
    user_id # NoText /\ user_id # "" /\ record.user_id # user_id

get_session_review(session_id, user_id) ==
    /\ UNCHANGED <<definitions, questions, now, next_uuid, inflight>>
    /\ IF ~SessionExists(session_id)
       THEN /\ last' = Response("get_session_review", session_id, "SessionNotFound")
            /\ UNCHANGED sessions
       ELSE LET record == load_session(session_id)
                cached == _ensure_summary_cached(record)
            IN IF OwnerMismatch(record, user_id)
               THEN /\ last' = Response("get_session_review", session_id, "Conflict")
                    /\ UNCHANGED sessions
               ELSE /\ last' = [Response("get_session_review", session_id, "ok") EXCEPT
                                   !.summary = cached.summary,
                                   !.attempts = _build_attempt_review(cached)]
                    /\ sessions' = IF record.summary # <<>> THEN sessions
                                   ELSE save_session(sessions, cached)

Init ==
    /\ definitions = [q \in QuizIds |-> QuizDefinitionRecord(q, TimedQuiz)]
    /\ questions = <<>>
    /\ sessions = <<>>
    /\ now = 0
    /\ next_uuid = 1
    /\ last = Response("init", NoText, "ok")
    /\ inflight = <<>>

UpsertQuizDefinition == \E quiz_id \in QuizIds, input \in DefinitionInputs : upsert_quiz_definition(quiz_id, input)

StartSession ==
    \E session_id \in SessionIds, quiz_id \in QuizIds, user_id \in UserIds,
       mode \in {NoText, "assessment"}, initial_difficulty \in {NoText}, is_preview \in BOOLEAN :
        start_session(session_id, quiz_id, user_id, mode, initial_difficulty, is_preview)

Overrides == {<<NoText, NoText>>, <<"geometry", "hard">>}

GetNextQuestion ==
    \E session_id \in SessionIds :
        get_next_question(session_id, NoText, NoText, MaxQuestions)

SubmitAnswer ==
    \E session_id \in SessionIds, question_id \in DOMAIN questions \cup {BogusId},
       selected_answer \in Choices, later \in {now, now + 1} :
        /\ later <= MaxClock
        /\ submit_answer(session_id, question_id, selected_answer, later)

\* submit_answer calls during which the clock does not advance.
SubmitAnswerNow ==
    \E session_id \in SessionIds, question_id \in DOMAIN questions \cup {BogusId},
       selected_answer \in Choices :
        submit_answer(session_id, question_id, selected_answer, now)

EndSession == \E session_id \in SessionIds : end_session(session_id)

DeletePreviewSession == \E session_id \in SessionIds : delete_preview_session(session_id)

OtherUserId == "u2"

DeleteSessionRecord ==
    \E session_id \in SessionIds, user_id \in UserIds \cup {OtherUserId} :
        delete_session_record(session_id, user_id)

Next ==
    \/ StartSession
    \/ GetNextQuestion
    \/ SubmitAnswerNow
    \/ EndSession
    \/ DeletePreviewSession
    \/ DeleteSessionRecord

Spec == Init /\ [][Next]_vars

\* ---------------------------------------------------------------------
\* Assessment sessions of either quiz
\* ---------------------------------------------------------------------
InitAssessment ==
    /\ \E input \in DefinitionInputs :
          definitions = [q \in QuizIds |-> QuizDefinitionRecord(q, input)]
    /\ questions = <<>>
    /\ sessions = <<>>
    /\ now = 0
    /\ next_uuid = 1
    /\ last = Response("init", NoText, "ok")
    /\ inflight = <<>>

StartAssessment ==
    \E session_id \in SessionIds, quiz_id \in QuizIds, user_id \in UserIds,
       is_preview \in BOOLEAN :
        start_session(session_id, quiz_id, user_id, "assessment", NoText, is_preview)

NextAssessment ==
    \/ Tick
    \/ StartAssessment
    \/ GetNextQuestion
    \/ SubmitAnswer
    \/ EndSession

SpecAssessment == InitAssessment /\ [][NextAssessment]_vars

\* ---------------------------------------------------------------------
\* Retries of get_next_question with topic and difficulty overrides
\* ---------------------------------------------------------------------
GetNextQuestionOverride ==
    \E session_id \in SessionIds, override \in Overrides :
        get_next_question(session_id, override[1], override[2], MaxOverrideQuestions)

StartOverride ==
    \E session_id \in SessionIds, quiz_id \in QuizIds, user_id \in UserIds, mode \in Modes :
        start_session(session_id, quiz_id, user_id, mode, NoText, FALSE)

AnswerOverride ==
    \E session_id \in SessionIds, question_id \in DOMAIN questions :
        submit_answer(session_id, question_id, "A", now)

NextOverrides ==
    \/ Tick
    \/ StartOverride
    \/ GetNextQuestionOverride
    \/ AnswerOverride

SpecOverrides == Init /\ [][NextOverrides]_vars

\* ---------------------------------------------------------------------
\* One practice session, long enough for a streak to reach the thresholds
\* ---------------------------------------------------------------------
StartPractice ==
    \E session_id \in SessionIds, quiz_id \in QuizIds, user_id \in UserIds,
       initial_difficulty \in Levels \cup {NoText}, is_preview \in BOOLEAN :
        start_session(session_id, quiz_id, user_id, "practice", initial_difficulty, is_preview)

NextPracticeQuestion ==
    \E session_id \in SessionIds :
        get_next_question(session_id, NoText, NoText, MaxPracticeQuestions)

NextPractice ==
    \/ StartPractice
    \/ NextPracticeQuestion
    \/ SubmitAnswerNow

SpecPractice == Init /\ [][NextPractice]_vars

\* ---------------------------------------------------------------------
\* Sessions long enough for the review of missed questions
\* ---------------------------------------------------------------------
InitReview ==
    /\ definitions = [q \in QuizIds |-> QuizDefinitionRecord(q, ReviewQuiz)]
    /\ questions = <<>>
    /\ sessions = <<>>
    /\ now = 0
    /\ next_uuid = 1
    /\ last = Response("init", NoText, "ok")
    /\ inflight = <<>>

StartReview ==
    \E session_id \in SessionIds, quiz_id \in QuizIds, user_id \in UserIds,
       mode \in Modes, is_preview \in BOOLEAN :
        start_session(session_id, quiz_id, user_id, mode, NoText, is_preview)

NextReviewQuestion ==
    \E session_id \in SessionIds :
        get_next_question(session_id, NoText, NoText, MaxReviewQuestions)

\* The learner answers the question on screen.
ReviewAnswer ==
    \E session_id \in DOMAIN sessions, selected_answer \in Choices :
        submit_answer(session_id, from_dict(sessions[session_id]).active_question_id,
                      selected_answer, now)

NextReview ==
    \/ Tick
    \/ StartReview
    \/ NextReviewQuestion
    \/ ReviewAnswer

SpecReview == InitReview /\ [][NextReview]_vars

\* ---------------------------------------------------------------------
\* Definition management next to running sessions
\* ---------------------------------------------------------------------
DeleteQuizDefinition == \E quiz_id \in QuizIds : quiz_delete_definition(quiz_id)

StartDefined ==
    \E session_id \in SessionIds, quiz_id \in QuizIds, user_id \in UserIds :
        start_session(session_id, quiz_id, user_id, NoText, NoText, FALSE)

NextDefinedQuestion ==
    \E session_id \in SessionIds :
        get_next_question(session_id, NoText, NoText, MaxQuestions)

NextDefinitions ==
    \/ UpsertQuizDefinition
    \/ DeleteQuizDefinition
    \/ StartDefined
    \/ NextDefinedQuestion
    \/ ReviewAnswer
    \/ EndSession

SpecDefinitions == Init /\ [][NextDefinitions]_vars

\* ---------------------------------------------------------------------
\* Review and deletion of sessions by learners
\* ---------------------------------------------------------------------
\* The user_id values a caller can pass: the owner, another learner, the empty string
\* and None.
CallerIds == UserIds \cup {OtherUserId, "", NoText}

StartOwned ==
    \E session_id \in SessionIds, quiz_id \in QuizIds, user_id \in UserIds, mode \in Modes :
        start_session(session_id, quiz_id, user_id, mode, NoText, FALSE)

GetSessionReview ==
    \E session_id \in SessionIds, user_id \in CallerIds :
        get_session_review(session_id, user_id)

DeleteSessionRecordBy ==
    \E session_id \in SessionIds, user_id \in CallerIds :
        delete_session_record(session_id, user_id)

NextHistory ==
    \/ Tick
    \/ StartOwned
    \/ NextDefinedQuestion
    \/ ReviewAnswer
    \/ EndSession
    \/ GetSessionReview
    \/ DeleteSessionRecordBy

SpecHistory == Init /\ [][NextHistory]_vars

\* ---------------------------------------------------------------------
\* The Firestore-backed session collection
\* ---------------------------------------------------------------------
\* Records the service saves under one session id over time: a session with a question
\* on screen, between questions, and closed; with and without a deadline; and, after
\* start_session reuses the id of a closed session, in the other mode.
SessionSnapshots ==
    {[NewSession(session_id, "quiz1", "u1", mode, "medium", deadline, <<"algebra">>, is_preview) EXCEPT
         !.status = status,
         !.completed_at = IF status = "in_progress" THEN NoTime ELSE Stamp,
         !.active_question_id = active,
         !.active_question_served_at = IF active = NoId THEN NoTime ELSE Stamp] :
        session_id \in SessionIds, mode \in Modes, deadline \in {NoTime, Stamp},
        is_preview \in BOOLEAN, status \in {"in_progress", "completed", "timed_out"},
        active \in {NoId, 1}}

ValidSnapshot(record) ==
    /\ record.mode = "practice" => record.deadline = NoTime /\ record.status # "timed_out"
    /\ record.status # "in_progress" => record.active_question_id = NoId

FirestoreSaveSession ==
    \E record \in {r \in SessionSnapshots : ValidSnapshot(r)} :
        /\ sessions' = firestore_save_session(sessions, record)
        /\ last' = [Response("save_session", record.session_id, "ok") EXCEPT !.status = record.status]
        /\ UNCHANGED <<definitions, questions, now, next_uuid, inflight>>

FirestoreLoadSession ==
    \E session_id \in SessionIds :
        /\ IF SessionExists(session_id)
           THEN last' = [Response("load_session", session_id, "ok") EXCEPT
                            !.status = load_session(session_id).status,
                            !.question_id = load_session(session_id).active_question_id]
           ELSE last' = Response("load_session", session_id, "SessionNotFound")
        /\ UNCHANGED <<definitions, questions, sessions, now, next_uuid, inflight>>

FirestoreDeleteSession ==
    \E session_id \in SessionIds :
        /\ sessions' = delete_session(sessions, session_id)
        /\ last' = Response("delete_session", session_id, "ok")
        /\ UNCHANGED <<definitions, questions, now, next_uuid, inflight>>

NextFirestore ==
    \/ FirestoreSaveSession
    \/ FirestoreLoadSession
    \/ FirestoreDeleteSession

SpecFirestore == Init /\ [][NextFirestore]_vars

\* ---------------------------------------------------------------------
\* QuizQuestionGenerator.generate on the model's JSON output
\* ---------------------------------------------------------------------
\* str.strip() on the strings the model output is drawn from.
strip(text) ==
    CASE text = " " -> ""
      [] text = " B " -> "B"
      [] text = "Too small " -> "Too small"
      [] OTHER -> text

GenericRationale == "This option does not correctly address the prompt."

\* Parsed payloads of the model: the well-formed one of test_quiz_generator.py cut to two
\* choices, and the same with blank, padded, repeated or missing parts.
ModelPayloads ==
    [choices : {<<"A", "B">>, <<"A", " B ">>, <<"A", " ", "B">>, <<"A">>, <<"A", "A">>, <<>>},
     correct_answer : {"A", " B ", "C"},
     incorrect_rationales : {<<>>, [k \in {"B"} |-> "Too small "], [k \in {"B"} |-> " "],
                             [k \in {"A", "B"} |-> ""], [k \in {" B "} |-> "Too small "]}]

CleanChoices(payload) ==
    SelectSeq([i \in 1..Len(payload.choices) |-> strip(payload.choices[i])], LAMBDA c : c # "")

\* The GeneratedQuestion generate returns when it raises nothing.
GeneratedQuestion(payload) ==
    LET choices == CleanChoices(payload)
        correct_answer == strip(payload.correct_answer)
        incorrect_raw == payload.incorrect_rationales
        kept == {k \in DOMAIN incorrect_raw : k \in Elements(choices)}
        distractors == {c \in Elements(choices) : c # correct_answer}
    IN [choices |-> choices,
        correct_answer |-> correct_answer,
        incorrect_rationales |->
            [c \in kept \cup distractors |->
                IF c \in kept THEN strip(incorrect_raw[c]) ELSE GenericRationale]]

\* The two checks of generate that raise QuizQuestionGenerationError.
Rejected(payload) ==
    \/ Len(CleanChoices(payload)) < 2
    \/ strip(payload.correct_answer) \notin Elements(CleanChoices(payload))

\* One generation: the question generate returns goes to the bank under a fresh id.
generate(payload, uuid_limit) ==
    /\ next_uuid <= uuid_limit
    /\ IF Rejected(payload)
       THEN /\ last' = Response("generate", NoText, "GenerationError")
            /\ UNCHANGED <<questions, next_uuid>>
       ELSE /\ questions' = Put(questions, next_uuid, GeneratedQuestion(payload))
            /\ next_uuid' = next_uuid + 1
            /\ last' = [Response("generate", NoText, "ok") EXCEPT !.question_id = next_uuid]
    /\ UNCHANGED <<definitions, sessions, now, inflight>>

Generate == \E payload \in ModelPayloads : generate(payload, MaxQuestions)

NextGenerator == Generate

SpecGenerator == Init /\ [][NextGenerator]_vars

\* ---------------------------------------------------------------------
\* A learner's session next to an instructor's preview of the same quiz
\* ---------------------------------------------------------------------
PreviewSessionId == "p1"

SummarySessions == SessionIds \cup {PreviewSessionId}

StartLearner ==
    \E session_id \in SessionIds, quiz_id \in QuizIds, user_id \in UserIds :
        start_session(session_id, quiz_id, user_id, NoText, NoText, FALSE)

StartPreview ==
    \E quiz_id \in QuizIds, user_id \in UserIds :
        start_session(PreviewSessionId, quiz_id, user_id, NoText, NoText, TRUE)

NextSummaryQuestion ==
    \E session_id \in SummarySessions :
        get_next_question(session_id, NoText, NoText, MaxQuestions)

EndEither == \E session_id \in SummarySessions : end_session(session_id)

NextSummary ==
    \/ StartLearner
    \/ StartPreview
    \/ NextSummaryQuestion
    \/ ReviewAnswer
    \/ EndEither

SpecSummary == Init /\ [][NextSummary]_vars

\* ---------------------------------------------------------------------
\* A learner and an instructor's preview sharing one question bank
\* ---------------------------------------------------------------------
StartSharedLearner ==
    \E session_id \in SessionIds, quiz_id \in QuizIds, user_id \in UserIds, mode \in Modes :
        start_session(session_id, quiz_id, user_id, mode, NoText, FALSE)

NextSharedQuestion ==
    \E session_id \in SummarySessions :
        get_next_question(session_id, NoText, NoText, MaxReviewQuestions)

\* The learner answers the question on screen; the instructor only looks at questions.
LearnerAnswer ==
    \E session_id \in SessionIds \cap DOMAIN sessions, selected_answer \in Choices :
        submit_answer(session_id, from_dict(sessions[session_id]).active_question_id,
                      selected_answer, now)

EndPreview == end_session(PreviewSessionId)

NextShared ==
    \/ StartSharedLearner
    \/ StartPreview
    \/ NextSharedQuestion
    \/ LearnerAnswer
    \/ EndPreview

SpecShared == Init /\ [][NextShared]_vars

\* ---------------------------------------------------------------------
\* Questions generated from an embedded slide deck
\* ---------------------------------------------------------------------
SlideCounts == {NoCount, 1}

InitCoverage ==
    /\ \E slide_count \in SlideCounts :
          definitions = [q \in QuizIds |-> QuizDefinitionRecord(q, SlideQuiz(slide_count))]
    /\ questions = <<>>
    /\ sessions = <<>>
    /\ now = 0
    /\ next_uuid = 1
    /\ last = Response("init", NoText, "ok")
    /\ inflight = <<>>

StartCoverage ==
    \E session_id \in SessionIds, quiz_id \in QuizIds, user_id \in UserIds :
        start_session(session_id, quiz_id, user_id, NoText, NoText, FALSE)

NextCoverageQuestion ==
    \E session_id \in SessionIds :
        get_next_question(session_id, NoText, NoText, MaxReviewQuestions)

\* The learner answers the question on screen with choice A.
CoverageAnswer ==
    \E session_id \in DOMAIN sessions :
        submit_answer(session_id, from_dict(sessions[session_id]).active_question_id, "A", now)

NextCoverage ==
    \/ StartCoverage
    \/ NextCoverageQuestion
    \/ CoverageAnswer
    \/ EndSession

SpecCoverage == InitCoverage /\ [][NextCoverage]_vars

\* ---------------------------------------------------------------------
\* Two submit_answer requests in flight at once
\* ---------------------------------------------------------------------
\* The service takes no lock: a request loads the session, and grades and saves later,
\* while the other request may do the same in between.
Requests == {"first", "retry"}

StartRace ==
    \E session_id \in SessionIds, quiz_id \in QuizIds, user_id \in UserIds, mode \in Modes :
        start_session(session_id, quiz_id, user_id, mode, NoText, FALSE)

NextRaceQuestion ==
    \E session_id \in SessionIds :
        get_next_question(session_id, NoText, NoText, MaxQuestions)

\* A request for the question on screen has loaded the session (self._load_session).
SubmitLoad ==
    \E request \in Requests \ DOMAIN inflight, session_id \in DOMAIN sessions,
       selected_answer \in Choices :
        LET record == load_session(session_id)
        IN /\ record.active_question_id # NoId
           /\ inflight' = Put(inflight, request,
                              [phase |-> "loaded",
                               session_id |-> session_id,
                               question_id |-> record.active_question_id,
                               selected_answer |-> selected_answer,
                               record |-> record,
                               result |-> NoText])
           /\ UNCHANGED <<definitions, questions, sessions, now, next_uuid, last>>

\* The request runs the rest of submit_answer on the record it loaded.
SubmitSave ==
    \E request \in DOMAIN inflight :
        LET call == inflight[request]
        IN /\ call.phase = "loaded"
           /\ submit_loaded(call.session_id, call.record, call.question_id,
                            call.selected_answer, now)
           /\ inflight' = Put(inflight, request,
                              [call EXCEPT !.phase = "done", !.result = last'.result])
           /\ UNCHANGED <<definitions, questions, next_uuid>>

NextRace ==
    \/ StartRace
    \/ NextRaceQuestion
    \/ SubmitLoad
    \/ SubmitSave

SpecRace == Init /\ [][NextRace]_vars

\* ---------------------------------------------------------------------
\* A learner who keeps asking and answering in one practice session
\* ---------------------------------------------------------------------
StartFair ==
    \E session_id \in SessionIds, quiz_id \in QuizIds, user_id \in UserIds :
        start_session(session_id, quiz_id, user_id, "practice", NoText, FALSE)

\* The learner asks for a question when none is on screen, and the generator delivers.
FairNextQuestion ==
    \E session_id \in DOMAIN sessions :
        /\ load_session(session_id).active_question_id = NoId
        /\ get_next_question(session_id, NoText, NoText, MaxFairQuestions)
        /\ last'.result = "ok"

\* Question ids one review cycle can use up: missed_review_gap new questions, each
\* generated on demand and followed by a pre-generated one, and the review clone.
IdsPerReview == 2 * missed_review_gap + 1

\* A wrong answer is considered while the ids left suffice for the review of every
\* missed question, this one included.
CanStillReview(record) ==
    (next_uuid - 1) + IdsPerReview * (Len(record.missed_question_ids) + 1) <= MaxFairQuestions

FairAnswer ==
    \E session_id \in DOMAIN sessions, selected_answer \in Choices :
        LET record == load_session(session_id)
        IN /\ record.active_question_id # NoId
           /\ HasQuestion(questions, record.active_question_id)
           /\ (selected_answer # questions[record.active_question_id].correct_answer) =>
                  CanStillReview(record)
           /\ submit_answer(session_id, record.active_question_id, selected_answer, now)

NextFair ==
    \/ StartFair
    \/ FairNextQuestion
    \/ FairAnswer

\* The states in which FairNextQuestion can take a step: a session with no question on
\* screen is in progress, and get_next_question has a question to return, which is a
\* review clone or a generated question while ids are left, or a queued or bank question.
FairNextQuestionEnabled ==
    \E session_id \in DOMAIN sessions :
        LET loaded == load_session(session_id)
            record == _enforce_time_constraints(loaded)
            review_tried == ~record.is_preview /\ ReviewDue(record)
            position == FirstResolvable(questions, record.missed_question_ids)
            available_existing == {q \in list_quiz_questions(questions, record.quiz_id) :
                                      ~Contains(record.asked_question_ids, q)
                                      /\ q # record.queued_question_id}
        IN /\ loaded.active_question_id = NoId
           /\ record.status = "in_progress"
           /\ IF review_tried /\ position # 0
              THEN next_uuid <= MaxFairQuestions
              ELSE /\ record.quiz_id \in DOMAIN definitions
                   /\ \/ /\ record.queued_question_id # NoId
                         /\ HasQuestion(questions, record.queued_question_id)
                      \/ ShouldUseExisting(record, available_existing)
                      \/ next_uuid <= MaxFairQuestions

\* The states in which FairAnswer can take a step: a question is on screen, and the
\* correct answer is always among the choices.
FairAnswerEnabled ==
    \E session_id \in DOMAIN sessions :
        LET record == load_session(session_id)
        IN /\ record.active_question_id # NoId
           /\ HasQuestion(questions, record.active_question_id)

\* The learner is weakly fair to both of their actions: WF_vars(FairNextQuestion) and
\* WF_vars(FairAnswer), each written out as "infinitely often disabled or infinitely
\* often taken" with the enabling condition given as a state predicate.
SpecFair ==
    /\ Init
    /\ [][NextFair]_vars
    /\ ([]<>~FairNextQuestionEnabled \/ []<><<FairNextQuestion>>_vars)
    /\ ([]<>~FairAnswerEnabled \/ []<><<FairAnswer>>_vars)

\* ---------------------------------------------------------------------
\* Topic rotation over a quiz with two topics
\* ---------------------------------------------------------------------
InitTopics ==
    /\ definitions = [q \in QuizIds |-> QuizDefinitionRecord(q, TwoTopicQuiz)]
    /\ questions = <<>>
    /\ sessions = <<>>
    /\ now = 0
    /\ next_uuid = 1
    /\ last = Response("init", NoText, "ok")
    /\ inflight = <<>>

StartTopics ==
    \E session_id \in SessionIds, quiz_id \in QuizIds, user_id \in UserIds,
       is_preview \in BOOLEAN :
        start_session(session_id, quiz_id, user_id, NoText, NoText, is_preview)

TopicOverrides == {NoText, "geometry"}

NextTopicQuestion ==
    \E session_id \in SessionIds, topic_override \in TopicOverrides :
        get_next_question(session_id, topic_override, NoText, MaxReviewQuestions)

NextTopics ==
    \/ StartTopics
    \/ NextTopicQuestion
    \/ ReviewAnswer

SpecTopics == InitTopics /\ [][NextTopics]_vars

\* =====================================================================
\* Properties
\* =====================================================================
Stored(session_id) == load_session(session_id)
StoredNext(session_id) == from_dict(sessions'[session_id])

\* The call made in this step (the response it produced is last').
Called(op) == last'.op = op
CalledOn(op, session_id) == last'.op = op /\ last'.session_id = session_id

\* C1: every stored session has as many attempts as attempts_used counts, and no two
\* of its attempts are for the same question id.
C1_AttemptsMatchUsed ==
    \A sid \in DOMAIN sessions :
        LET attempts == Stored(sid).attempts
        IN /\ Len(attempts) = Stored(sid).attempts_used
           /\ \A i, j \in 1..Len(attempts) :
                 i # j => attempts[i].question_id # attempts[j].question_id

C1_Witness ==
    \E sid \in DOMAIN sessions : Len(Stored(sid).attempts) >= 2

\* C2: while the session is in progress, its deadline has not passed and its outstanding
\* question is in the bank, get_next_question returns that question again, whatever the
\* overrides, and changes neither the stored session nor the bank; the outstanding
\* question is always the one the last successful get_next_question returned.
C2_RetryReturnsOutstanding ==
    [][\A sid \in SessionIds :
          CalledOn("get_next_question", sid) =>
              /\ last'.result = "ok" => StoredNext(sid).active_question_id = last'.question_id
              /\ (/\ sid \in DOMAIN sessions
                  /\ Stored(sid).status = "in_progress"
                  /\ ~DeadlinePassed(Stored(sid), now)
                  /\ Stored(sid).active_question_id # NoId
                  /\ Stored(sid).active_question_id \in DOMAIN questions) =>
                     /\ last'.result = "ok"
                     /\ last'.question_id = Stored(sid).active_question_id
                     /\ sessions' = sessions
                     /\ questions' = questions
                     /\ next_uuid' = next_uuid]_vars

C2_Witness ==
    /\ last.op = "get_next_question"
    /\ last.result = "ok"
    /\ last.served = "outstanding"
    /\ \E sid \in DOMAIN sessions :
          /\ Stored(sid).active_question_id = last.question_id
          /\ Stored(sid).queued_question_id # NoId

\* The attempt number at which an assessment session of this definition completes.
CompletionCount(definition) ==
    IF definition.assessment_max_attempts # NoCount
       /\ definition.assessment_max_attempts < definition.assessment_num_questions
    THEN definition.assessment_max_attempts
    ELSE definition.assessment_num_questions

\* A successful submit_answer on an assessment session whose definition has a question count.
AssessmentSubmit(sid) ==
    /\ CalledOn("submit_answer", sid)
    /\ last'.result = "ok"
    /\ sid \in DOMAIN sessions
    /\ Stored(sid).mode = "assessment"
    /\ Stored(sid).quiz_id \in DOMAIN definitions
    /\ definitions[Stored(sid).quiz_id].assessment_num_questions >= 1

\* C3 as stated: an assessment session with question count N is completed by submit_answer
\* on the Nth attempt and on no other, and never holds more than N attempts.
C3_CompletesOnNth ==
    [][\A sid \in SessionIds :
          AssessmentSubmit(sid) =>
              LET N == definitions[Stored(sid).quiz_id].assessment_num_questions
              IN /\ (StoredNext(sid).status = "completed") <=> (Len(StoredNext(sid).attempts) = N)
                 /\ Len(StoredNext(sid).attempts) <= N]_vars

\* C3 amended: with the definition unchanged during the session, submit_answer completes
\* the session on attempt number min(N, max attempts) and on no earlier attempt, and the
\* session never holds more attempts than that.
C3_CompletesOnNthOrMax ==
    [][\A sid \in SessionIds :
          AssessmentSubmit(sid) =>
              LET K == CompletionCount(definitions[Stored(sid).quiz_id])
              IN /\ (StoredNext(sid).status = "completed") <=> (Len(StoredNext(sid).attempts) = K)
                 /\ Len(StoredNext(sid).attempts) <= K]_vars

C3_Witness ==
    /\ last.op = "submit_answer" /\ last.result = "ok" /\ last.status = "completed"
    /\ \E sid \in DOMAIN sessions :
          /\ Stored(sid).mode = "assessment"
          /\ Len(Stored(sid).attempts) = 2
          /\ definitions[Stored(sid).quiz_id].assessment_num_questions = 2

\* A submit_answer call on a stored practice session.
PracticeSubmit(sid) ==
    /\ CalledOn("submit_answer", sid)
    /\ sid \in DOMAIN sessions
    /\ Stored(sid).mode = "practice"

\* C4: every stored session's current_difficulty is easy, medium or hard, and a
\* submit_answer on a practice session moves it by at most one level: never down on a
\* correct answer, never up on an incorrect one.
C4_DifficultyStepsByOne ==
    [][\A sid \in SessionIds :
          /\ sid \in DOMAIN sessions' => StoredNext(sid).current_difficulty \in Levels
          /\ PracticeSubmit(sid) =>
                LET before == DifficultyRank(Stored(sid).current_difficulty)
                    after == DifficultyRank(StoredNext(sid).current_difficulty)
                IN /\ after - before \in {-1, 0, 1}
                   /\ last'.is_correct => after >= before
                   /\ ~last'.is_correct => after <= before]_vars

C4_Witness ==
    /\ last.op = "submit_answer"
    /\ last.result = "ok"
    /\ last.is_correct
    /\ \E sid \in DOMAIN sessions :
          /\ Stored(sid).mode = "practice"
          /\ Stored(sid).current_difficulty = "hard"
          /\ Stored(sid).correct_streak >= 3

Terminal(status) == status \in {"completed", "timed_out"}

\* C5: on a stored session that is completed or timed out, get_next_question and
\* submit_answer fail with Closed carrying that status and change neither the session
\* nor the bank, and end_session leaves the status as it is (or removes the record).
C5_TerminalStaysClosed ==
    [][\A sid \in DOMAIN sessions :
          Terminal(Stored(sid).status) =>
              /\ (CalledOn("get_next_question", sid) \/ CalledOn("submit_answer", sid)) =>
                    /\ last'.result = "Closed"
                    /\ last'.status = Stored(sid).status
                    /\ sessions' = sessions
                    /\ questions' = questions
              /\ CalledOn("end_session", sid) =>
                    \/ sid \notin DOMAIN sessions'
                    \/ /\ StoredNext(sid).status = Stored(sid).status
                       /\ StoredNext(sid).attempts = Stored(sid).attempts
                       /\ StoredNext(sid).asked_question_ids = Stored(sid).asked_question_ids]_vars

C5_Witness ==
    /\ last.result = "Closed"
    /\ last.status = "completed"
    /\ \E sid \in DOMAIN sessions : Stored(sid).status = "completed" /\ sid = last.session_id

C7_HardAfterSecondCorrect ==
    [][\A sid \in SessionIds :
          (/\ PracticeSubmit(sid)
           /\ last'.result = "ok"
           /\ last'.is_correct
           /\ ~Stored(sid).is_preview
           /\ Len(Stored(sid).attempts) = 1
           /\ Stored(sid).attempts[1].is_correct
           /\ Stored(sid).current_difficulty = "medium") =>
              /\ last'.current_difficulty = "hard"
              /\ ~last'.session_completed]_vars

\* C8: on an open session, submit_answer with a question id that was never served in the
\* session (an id not in asked_question_ids) fails with NotFound and records no attempt.
C8_UnservedRejected ==
    [][\A sid \in DOMAIN sessions :
          (/\ CalledOn("submit_answer", sid)
           /\ Stored(sid).status = "in_progress"
           /\ ~TimesOut(Stored(sid))
           /\ ~Contains(Stored(sid).asked_question_ids, last'.question_id)) =>
              /\ last'.result = "QuestionNotFound"
              /\ Stored(sid).attempts = StoredNext(sid).attempts]_vars

\* A submit_answer call for a question id that already has an attempt in the session.
DuplicateSubmit(sid) ==
    /\ CalledOn("submit_answer", sid)
    /\ sid \in DOMAIN sessions
    /\ \E i \in 1..Len(Stored(sid).attempts) : Stored(sid).attempts[i].question_id = last'.question_id

\* C9 as stated: a duplicate submit_answer fails and leaves the stored session unchanged.
C9_DuplicateLeavesSession ==
    [][\A sid \in SessionIds :
          DuplicateSubmit(sid) => (last'.result # "ok" /\ sessions' = sessions)]_vars

\* C9 amended: a duplicate submit_answer fails and leaves attempts, attempts_used, the
\* streak counters, current_difficulty and missed_question_ids unchanged; the whole stored
\* session is unchanged unless the call found the assessment deadline passed, in which case
\* it is stored as timed_out with the outstanding and queued question cleared.
C9_DuplicateFails ==
    [][\A sid \in SessionIds :
          DuplicateSubmit(sid) =>
              /\ last'.result \in {"AlreadyAnswered", "Closed"}
              /\ sid \in DOMAIN sessions'
              /\ \A k \in {"attempts", "attempts_used", "correct_streak", "incorrect_streak",
                           "current_difficulty", "missed_question_ids"} :
                     StoredNext(sid)[k] = Stored(sid)[k]
              /\ \/ sessions' = sessions
                 \/ /\ TimesOut(Stored(sid))
                    /\ last'.result = "Closed"
                    /\ StoredNext(sid) = _mark_completed(Stored(sid), "timed_out")]_vars

C9_Witness ==
    /\ last.op = "submit_answer"
    /\ last.result = "AlreadyAnswered"

\* A start_session call that names an existing definition and a mode the definition supports.
ValidStart(quiz_id, mode) ==
    /\ quiz_id \in DOMAIN definitions
    /\ LET selected_mode == IF mode # NoText THEN mode ELSE definitions[quiz_id].default_mode
       IN selected_mode = "assessment" => definitions[quiz_id].assessment_num_questions # NoCount

\* C10: start_session on an id whose stored session is in progress fails with Conflict and
\* changes nothing; on an id that is absent or terminal it never fails with Conflict, and
\* when it succeeds the stored session is a fresh in-progress one without attempts.
C10_StartConflict ==
    [][\A sid \in SessionIds :
          CalledOn("start_session", sid) =>
              IF sid \in DOMAIN sessions /\ Stored(sid).status = "in_progress"
              THEN last'.result = "Conflict" /\ sessions' = sessions /\ questions' = questions
              ELSE /\ last'.result # "Conflict"
                   /\ (\A q \in DOMAIN definitions : \A m \in Modes : ValidStart(q, m))
                         => last'.result = "ok"
                   /\ last'.result = "ok" =>
                         /\ sid \in DOMAIN sessions'
                         /\ StoredNext(sid).status = "in_progress"
                         /\ StoredNext(sid).attempts = <<>>
                         /\ StoredNext(sid).attempts_used = 0
                         /\ StoredNext(sid).asked_question_ids = <<>>
                         /\ StoredNext(sid).active_question_id = NoId]_vars

C10_Witness ==
    /\ last.op = "start_session"
    /\ last.result = "ok"
    /\ next_uuid > 1

\* The calls that end or delete a session.
Removals == {"end_session", "delete_preview_session", "delete_session_record"}

\* C11: end_session and delete_preview_session on a stored preview session always succeed,
\* delete_session_record succeeds for the session's own user, and a successful one removes
\* the session record and every bank question listed in its preview_question_ids (and no
\* other question); any later call other than start_session on the removed id fails with
\* SessionNotFound.
C11_PreviewCleanup ==
    [][\A sid \in SessionIds :
          /\ (/\ sid \in DOMAIN sessions
              /\ Stored(sid).is_preview
              /\ last'.session_id = sid
              /\ last'.op \in Removals) =>
                 /\ last'.op # "delete_session_record" => last'.result = "ok"
                 /\ last'.result = "ok" =>
                       /\ sid \notin DOMAIN sessions'
                       /\ \A q \in DOMAIN questions :
                             IF Contains(Stored(sid).preview_question_ids, q)
                             THEN q \notin DOMAIN questions'
                             ELSE q \in DOMAIN questions' /\ questions'[q] = questions[q]
          /\ (/\ sid \notin DOMAIN sessions
              /\ last'.session_id = sid
              /\ last'.op \in Removals \cup {"get_next_question", "submit_answer"}) =>
                 last'.result = "SessionNotFound"]_vars

C11_Witness ==
    /\ last.op \in Removals
    /\ last.result = "ok"
    /\ last.session_id \notin DOMAIN sessions
    /\ next_uuid = 3
    /\ questions = <<>>

\* C12: end_session on a stored non-preview session succeeds and returns a summary whose
\* total_questions is the number of attempts and whose status is completed if the session
\* was in progress (its terminal status otherwise); with no attempts the record is deleted,
\* otherwise it is stored with that status and that summary cached; the bank is untouched.
C12_EndSessionStoresSummary ==
    [][\A sid \in SessionIds :
          (/\ CalledOn("end_session", sid)
           /\ sid \in DOMAIN sessions
           /\ ~Stored(sid).is_preview) =>
              LET before == Stored(sid)
                  status == IF before.status = "in_progress" THEN "completed" ELSE before.status
              IN /\ last'.result = "ok"
                 /\ last'.summary.total_questions = Len(before.attempts)
                 /\ last'.summary.status = status
                 /\ questions' = questions
                 /\ IF before.attempts = <<>>
                    THEN sid \notin DOMAIN sessions'
                    ELSE /\ sid \in DOMAIN sessions'
                         /\ StoredNext(sid).status = status
                         /\ StoredNext(sid).summary = last'.summary
                         /\ StoredNext(sid).attempts = before.attempts]_vars

C12_Witness ==
    /\ last.op = "end_session"
    /\ last.result = "ok"
    /\ last.summary.total_questions = 1
    /\ \E sid \in DOMAIN sessions :
          /\ sid = last.session_id
          /\ ~Stored(sid).is_preview
          /\ Stored(sid).status = "completed"
          /\ Stored(sid).summary = last.summary

\* C13: get_next_question or submit_answer on an in-progress assessment session whose
\* deadline has passed fails with Closed carrying timed_out, stores the session as
\* timed_out with the outstanding and queued question cleared, serves no question and
\* records no attempt, whatever the submitted question and however many attempts exist.
C13_DeadlineClosesFirst ==
    [][\A sid \in SessionIds :
          (/\ CalledOn("get_next_question", sid) \/ CalledOn("submit_answer", sid)
           /\ sid \in DOMAIN sessions
           /\ Stored(sid).mode = "assessment"
           /\ Stored(sid).status = "in_progress"
           /\ Stored(sid).deadline # NoTime
           /\ now > Stored(sid).deadline) =>
              /\ last'.result = "Closed"
              /\ last'.status = "timed_out"
              /\ last'.served = NoText
              /\ sid \in DOMAIN sessions'
              /\ StoredNext(sid).status = "timed_out"
              /\ StoredNext(sid).active_question_id = NoId
              /\ StoredNext(sid).queued_question_id = NoId
              /\ StoredNext(sid).attempts = Stored(sid).attempts
              /\ StoredNext(sid).attempts_used = Stored(sid).attempts_used
              /\ StoredNext(sid).asked_question_ids = Stored(sid).asked_question_ids
              /\ questions' = questions
              /\ next_uuid' = next_uuid]_vars

C13_Witness ==
    /\ last.op = "submit_answer"
    /\ last.result = "Closed"
    /\ last.status = "timed_out"
    /\ \E sid \in DOMAIN sessions :
          /\ sid = last.session_id
          /\ Stored(sid).status = "timed_out"
          /\ Len(Stored(sid).attempts) = 1
          /\ definitions[Stored(sid).quiz_id].assessment_num_questions = 2
          /\ Contains(Stored(sid).asked_question_ids, last.question_id)
          /\ ~already_answered(Stored(sid), last.question_id)

\* C14: end_session on an in-progress assessment session whose deadline has passed
\* reports and stores the terminal status timed_out, not completed.
C14_EndSessionTimesOut ==
    [][\A sid \in SessionIds :
          (/\ CalledOn("end_session", sid)
           /\ sid \in DOMAIN sessions
           /\ Stored(sid).mode = "assessment"
           /\ Stored(sid).status = "in_progress"
           /\ Stored(sid).deadline # NoTime
           /\ now > Stored(sid).deadline) =>
              /\ last'.status = "timed_out"
              /\ sid \in DOMAIN sessions' => StoredNext(sid).status = "timed_out"]_vars

\* C15: a get_next_question call that fails with the generation error leaves the session
\* store, the question bank and the id counter exactly as they were; it happens only on
\* an open session without a resolvable outstanding or queued question.
C15_GenerationFailureKeepsState ==
    [][\A sid \in SessionIds :
          (CalledOn("get_next_question", sid) /\ last'.result = "GenerationError") =>
              /\ sessions' = sessions
              /\ questions' = questions
              /\ next_uuid' = next_uuid
              /\ last'.question_id = NoId
              /\ sid \in DOMAIN sessions
              /\ Stored(sid).status = "in_progress"
              /\ Stored(sid).active_question_id \notin DOMAIN questions
              /\ Stored(sid).queued_question_id \notin DOMAIN questions]_vars

C15_Witness ==
    /\ last.op = "get_next_question"
    /\ last.result = "GenerationError"
    /\ \E sid \in DOMAIN sessions :
          /\ sid = last.session_id
          /\ Stored(sid).status = "in_progress"
          /\ Stored(sid).active_question_id = NoId
          /\ Len(Stored(sid).attempts) = 1

\* The premise of the review rule: get_next_question is called on a stored non-preview
\* session that is in progress and has no outstanding question in the bank.
ReviewCall(sid) ==
    /\ CalledOn("get_next_question", sid)
    /\ sid \in DOMAIN sessions
    /\ ~Stored(sid).is_preview
    /\ Stored(sid).status = "in_progress"
    /\ Stored(sid).active_question_id \notin DOMAIN questions

\* Positions of the missed queue whose id still resolves in the bank.
ResolvingMissed(sid) ==
    {i \in 1..Len(Stored(sid).missed_question_ids) :
        Stored(sid).missed_question_ids[i] \in DOMAIN questions}

\* The review rule itself: a clone of the oldest resolving missed question is served
\* exactly when one exists and the gap has been reached, and then nothing else is.
ReviewRule(sid) ==
    LET queue == Stored(sid).missed_question_ids
        due == ResolvingMissed(sid) # {} /\ Stored(sid).questions_since_review >= 2
    IN /\ (last'.served = "review") <=> due
       /\ due =>
            LET oldest == CHOOSE i \in ResolvingMissed(sid) : \A j \in ResolvingMissed(sid) : i <= j
                clone_id == last'.question_id
            IN /\ last'.result = "ok"
               /\ clone_id \notin DOMAIN questions
               /\ clone_id # queue[oldest]
               /\ questions' = Put(questions, clone_id,
                                   [questions[queue[oldest]] EXCEPT !.question_id = clone_id])
               /\ StoredNext(sid) = [Stored(sid) EXCEPT
                      !.missed_question_ids = SubSeq(queue, oldest + 1, Len(queue)),
                      !.questions_since_review = 0,
                      !.asked_question_ids = Append(Stored(sid).asked_question_ids, clone_id),
                      !.active_question_id = clone_id,
                      !.active_question_served_at = Stamp]

\* C16: in a non-preview in-progress session whose deadline has not passed and that has
\* no outstanding question, get_next_question serves a review clone exactly when the
\* missed queue holds an id that resolves in the bank and questions_since_review has
\* reached the gap; the clone copies the oldest such question under a fresh id, the queue
\* loses every id up to and including it, questions_since_review becomes 0, and the
\* session and the bank change in nothing else.
C16_ReviewWhenDueBeforeDeadline ==
    [][\A sid \in SessionIds :
          (ReviewCall(sid) /\ ~DeadlinePassed(Stored(sid), now)) => ReviewRule(sid)]_vars

\* C16 as stated, for every stored in-progress session, its deadline passed or not.
C16_ReviewWhenDue ==
    [][\A sid \in SessionIds : ReviewCall(sid) => ReviewRule(sid)]_vars

C16_Witness ==
    /\ last.op = "get_next_question"
    /\ last.served = "review"
    /\ \E sid \in DOMAIN sessions :
          /\ sid = last.session_id
          /\ ~Stored(sid).is_preview
          /\ Stored(sid).questions_since_review = 0
          /\ Stored(sid).active_question_id = last.question_id
          /\ Stored(sid).missed_question_ids = <<>>
          /\ Len(Stored(sid).asked_question_ids) = 3
          /\ Len(Stored(sid).attempts) = 2

\* Number of questions the session was served after the last time `question_id` was.
ServedSince(record, question_id) ==
    LET asked == record.asked_question_ids
        at == {i \in 1..Len(asked) : asked[i] = question_id}
    IN IF at = {} THEN Len(asked)
       ELSE Len(asked) - (CHOOSE i \in at : \A j \in at : j <= i)

\* C17: when get_next_question serves the review clone of a missed question, at least
\* missed_question_review_gap (2) questions have been served in the session since that
\* question was served and answered incorrectly (reviews counted too, which asks less
\* than counting only the other new questions).
C17_ReviewAfterGapNewQuestions ==
    [][\A sid \in SessionIds :
          (CalledOn("get_next_question", sid) /\ last'.served = "review"
             /\ sid \in DOMAIN sessions /\ ResolvingMissed(sid) # {}) =>
              LET oldest == CHOOSE i \in ResolvingMissed(sid) : \A j \in ResolvingMissed(sid) : i <= j
              IN ServedSince(Stored(sid), Stored(sid).missed_question_ids[oldest]) >= 2]_vars

\* C18: after a definition is deleted the store holds no definition with that id, no
\* bank question of that quiz and no session of that quiz, whatever its status.
C18_DeleteDefinitionCascades ==
    [][(Called("delete_quiz_definition") /\ last'.result = "ok") =>
          \A quiz_id \in DOMAIN definitions \ DOMAIN definitions' :
              /\ list_quiz_questions(questions', quiz_id) = {}
              /\ \A sid \in DOMAIN sessions' : sessions'[sid].quiz_id # quiz_id]_vars

\* C19: once a session against a quiz is held in the store, upsert_quiz_definition on
\* that quiz leaves topics, default mode, initial difficulty, question count, time limit
\* and max attempts of the stored definition as they were.
C19_StartedDefinitionFrozen ==
    [][Called("upsert_quiz_definition") =>
          \A quiz_id \in DOMAIN definitions :
              (\E sid \in DOMAIN sessions : sessions[sid].quiz_id = quiz_id) =>
                  /\ quiz_id \in DOMAIN definitions'
                  /\ definitions'[quiz_id] = definitions[quiz_id]]_vars

\* C20: delete_preview_session on a stored session that is not a preview fails with
\* Conflict and leaves the session store and the question bank exactly as they were.
C20_NonPreviewDeleteRejected ==
    [][\A sid \in SessionIds :
          (CalledOn("delete_preview_session", sid) /\ sid \in DOMAIN sessions
             /\ ~Stored(sid).is_preview) =>
              /\ last'.result = "Conflict"
              /\ sessions' = sessions
              /\ questions' = questions]_vars

C20_Witness ==
    /\ last.op = "delete_preview_session"
    /\ last.result = "Conflict"
    /\ \E sid \in DOMAIN sessions :
          /\ sid = last.session_id
          /\ ~Stored(sid).is_preview
          /\ Len(Stored(sid).attempts) = 1
          /\ list_quiz_questions(questions, Stored(sid).quiz_id) # {}

\* C21: get_session_review and delete_session_record called with a user_id that differs
\* from the stored session's user_id fail with Conflict, return no summary and no
\* attempt detail, and leave the session store as it was.
C21_ForeignUserRejected ==
    [][\A sid \in SessionIds, uid \in CallerIds :
          (/\ sid \in DOMAIN sessions
           /\ uid # Stored(sid).user_id
           /\ get_session_review(sid, uid) \/ delete_session_record(sid, uid)) =>
              /\ last'.result = "Conflict"
              /\ last'.summary = <<>>
              /\ last'.attempts = <<>>
              /\ sessions' = sessions]_vars

IsPrefix(before, after) ==
    Len(before) <= Len(after) /\ SubSeq(after, 1, Len(before)) = before

\* C22: across every get_next_question, submit_answer and end_session step that leaves
\* the session in the store, the attempts list and the asked_question_ids list each keep
\* their previous entries as a prefix and grow by at most one entry.
C22_HistoriesAppendOnly ==
    [][\A sid \in SessionIds :
          (/\ CalledOn("get_next_question", sid) \/ CalledOn("submit_answer", sid)
                \/ CalledOn("end_session", sid)
           /\ sid \in DOMAIN sessions
           /\ sid \in DOMAIN sessions') =>
              /\ IsPrefix(Stored(sid).attempts, StoredNext(sid).attempts)
              /\ IsPrefix(Stored(sid).asked_question_ids, StoredNext(sid).asked_question_ids)
              /\ Len(StoredNext(sid).attempts) <= Len(Stored(sid).attempts) + 1
              /\ Len(StoredNext(sid).asked_question_ids)
                    <= Len(Stored(sid).asked_question_ids) + 1]_vars

C22_Witness ==
    /\ last.op = "end_session"
    /\ last.result = "ok"
    /\ \E sid \in DOMAIN sessions :
          /\ sid = last.session_id
          /\ Stored(sid).status = "completed"
          /\ Len(Stored(sid).attempts) = 1
          /\ Len(Stored(sid).asked_question_ids) = 2

\* C23: after the Firestore repository saves a session record, loading it yields a
\* record equal to the saved one in every field, also when deadline, completed_at or
\* active_question_served_at is null in the saved record and was set in the stored one.
C23_FirestoreSaveReplaces ==
    [][\A record \in SessionSnapshots :
          (Called("save_session") /\ sessions' = firestore_save_session(sessions, record)) =>
              StoredNext(record.session_id) = record]_vars

\* C24: every generated question has at least two choices, a correct_answer that is
\* one of them, and a non-empty incorrect_rationales entry for every other choice.
C24_GeneratedWellFormed ==
    \A q \in DOMAIN questions :
        LET question == questions[q]
        IN /\ Len(question.choices) >= 2
           /\ question.correct_answer \in Elements(question.choices)
           /\ \A c \in Elements(question.choices) \ {question.correct_answer} :
                 /\ c \in DOMAIN question.incorrect_rationales
                 /\ question.incorrect_rationales[c] # ""

\* C25: every stored session whose status is completed or timed_out carries a non-empty
\* cached summary whose status and total_questions are the session's status and number
\* of attempts.
C25_TerminalHasSummary ==
    \A sid \in DOMAIN sessions :
        Stored(sid).status \in {"completed", "timed_out"} =>
            /\ Stored(sid).summary # <<>>
            /\ Stored(sid).summary.status = Stored(sid).status
            /\ Stored(sid).summary.total_questions = Len(Stored(sid).attempts)

RECURSIVE SumOver(_, _, _)
SumOver(stats, topics, field) ==
    IF topics = {} THEN 0
    ELSE LET topic == CHOOSE t \in topics : TRUE
         IN stats[topic][field] + SumOver(stats, topics \ {topic}, field)

\* What a summary has to report for a list of attempts against a bank.
SummaryMatches(summary, attempts, bank) ==
    LET missing == {i \in 1..Len(attempts) : attempts[i].question_id \notin DOMAIN bank}
        correct == {i \in 1..Len(attempts) : attempts[i].is_correct}
    IN /\ summary.total_questions = Len(attempts)
       /\ summary.correct_answers = Cardinality(correct)
       /\ SumOver(summary.topics, DOMAIN summary.topics, "attempted") = summary.total_questions
       /\ SumOver(summary.topics, DOMAIN summary.topics, "correct") = summary.correct_answers
       /\ missing # {} =>
             /\ "general" \in DOMAIN summary.topics
             /\ summary.topics["general"].attempted >= Cardinality(missing)
             /\ summary.topics["general"].correct >= Cardinality(missing \cap correct)

RECURSIVE ScanRuns(_, _, _, _, _)
ScanRuns(attempts, i, current, best, target) ==
    IF i > Len(attempts) THEN best
    ELSE LET run == IF attempts[i].is_correct = target THEN current + 1 ELSE 0
         IN ScanRuns(attempts, i + 1, run, Max(best, run), target)

LongestRun(attempts, target) == ScanRuns(attempts, 1, 0, 0, target)

\* C27: the max_correct_streak (max_incorrect_streak) of every stored session is the
\* length of the longest run of consecutive correct (incorrect) attempts in its whole
\* attempt list, whatever the live streak counters are.
C27_MaxStreakIsLongestRun ==
    \A sid \in DOMAIN sessions :
        /\ Stored(sid).max_correct_streak = LongestRun(Stored(sid).attempts, TRUE)
        /\ Stored(sid).max_incorrect_streak = LongestRun(Stored(sid).attempts, FALSE)

C27_Witness ==
    \E sid \in DOMAIN sessions :
        /\ last.op = "submit_answer"
        /\ last.result = "ok"
        /\ Stored(sid).mode = "practice"
        /\ Len(Stored(sid).attempts) = 3
        /\ Stored(sid).max_incorrect_streak = 3
        /\ Stored(sid).incorrect_streak = 1
        /\ Stored(sid).current_difficulty = "easy"

\* The serves of a new question, as opposed to a review clone or the outstanding one.
NewServes == {"generated", "existing", "queued"}

\* C28: a get_next_question without topic override that serves a new question moves
\* topic_cursor to (cursor + 1) modulo the number of session topics; a call with a topic
\* override, a review clone, a re-returned outstanding question, a failed call and
\* submit_answer leave it unchanged; the cursor of every stored session indexes its topics.
C28_CursorRotates ==
    [][\A sid \in SessionIds :
          /\ sid \in DOMAIN sessions' =>
                StoredNext(sid).topic_cursor \in 0..(Len(StoredNext(sid).topics) - 1)
          /\ (sid \in DOMAIN sessions /\ sid \in DOMAIN sessions') =>
                LET cursor == Stored(sid).topic_cursor
                    after == StoredNext(sid).topic_cursor
                IN /\ (/\ get_next_question(sid, NoText, NoText, MaxReviewQuestions)
                       /\ last'.result = "ok"
                       /\ last'.served \in NewServes) =>
                         after = (cursor + 1) % Len(Stored(sid).topics)
                   /\ (\E topic_override \in TopicOverrides \ {NoText} :
                          get_next_question(sid, topic_override, NoText, MaxReviewQuestions)) =>
                         after = cursor
                   /\ (/\ CalledOn("get_next_question", sid)
                       /\ last'.result # "ok" \/ last'.served \notin NewServes) =>
                         after = cursor
                   /\ CalledOn("submit_answer", sid) => after = cursor]_vars

C28_Witness ==
    /\ last.op = "get_next_question"
    /\ last.served \in NewServes
    /\ \E sid \in DOMAIN sessions :
          /\ sid = last.session_id
          /\ Stored(sid).topics = <<"geometry", "algebra">>
          /\ Len(Stored(sid).asked_question_ids) = 2
          /\ questions[last.question_id].topic = "algebra"
          /\ Stored(sid).topic_cursor = 0

\* C29: in a non-preview session, a question generated for the session and delivered by
\* a get_next_question without topic override, straight away or through the queue slot,
\* has the topic that the session's own topic list holds at the cursor of that call.
C29_GeneratedTopicFollowsSession ==
    [][\A sid \in SessionIds :
          (/\ sid \in DOMAIN sessions
           /\ ~Stored(sid).is_preview
           /\ get_next_question(sid, NoText, NoText, MaxReviewQuestions)
           /\ last'.result = "ok"
           /\ last'.served \in {"generated", "queued"}) =>
              questions'[last'.question_id].topic =
                  Stored(sid).topics[(Stored(sid).topic_cursor % Len(Stored(sid).topics)) + 1]]_vars

\* C30: a graded answer on a practice session that raises the difficulty leaves
\* correct_streak at 0 and one that lowers it leaves incorrect_streak at 0; a raise needs
\* a correct answer bringing the count to the increase threshold, a lowering an incorrect
\* answer bringing the count to the decrease threshold; a counter grows by one at a time,
\* and only on an answer of its own kind, so the answers between two successive changes
\* in one direction are at least threshold many, all of that kind; and every stored
\* session has at least one of the two counters at 0.
C30_CausingStreakReset ==
    [][/\ \A sid \in SessionIds :
             (PracticeSubmit(sid) /\ last'.result = "ok"
                 /\ Len(StoredNext(sid).attempts) = Len(Stored(sid).attempts) + 1) =>
                 LET before == Stored(sid)
                     after == StoredNext(sid)
                     promoted == DifficultyRank(after.current_difficulty)
                                     > DifficultyRank(before.current_difficulty)
                     demoted == DifficultyRank(after.current_difficulty)
                                     < DifficultyRank(before.current_difficulty)
                 IN /\ promoted => /\ after.correct_streak = 0
                                    /\ last'.is_correct
                                    /\ before.correct_streak + 1 >= increase_threshold
                    /\ demoted => /\ after.incorrect_streak = 0
                                   /\ ~last'.is_correct
                                   /\ before.incorrect_streak + 1 >= decrease_threshold
                    /\ after.correct_streak <= before.correct_streak + 1
                    /\ after.incorrect_streak <= before.incorrect_streak + 1
                    /\ last'.is_correct => after.incorrect_streak = 0
                    /\ ~last'.is_correct => after.correct_streak = 0
       /\ \A sid \in DOMAIN sessions' :
             StoredNext(sid).correct_streak = 0 \/ StoredNext(sid).incorrect_streak = 0]_vars

C30_Witness ==
    /\ last.op = "submit_answer"
    /\ last.result = "ok"
    /\ ~last.is_correct
    /\ \E sid \in DOMAIN sessions :
          /\ sid = last.session_id
          /\ Stored(sid).mode = "practice"
          /\ Len(Stored(sid).attempts) = 3
          /\ \A i \in 1..3 : ~Stored(sid).attempts[i].is_correct
          /\ Stored(sid).incorrect_streak = 1
          /\ Stored(sid).current_difficulty = "easy"

NoDuplicates(seq) == \A i, j \in 1..Len(seq) : seq[i] = seq[j] => i = j

\* C31: no stored session's asked_question_ids holds the same question id twice, and a
\* serve of a new question appends an id that was not in the history before.
C31_AskedOnce ==
    [][\A sid \in DOMAIN sessions' :
          /\ NoDuplicates(StoredNext(sid).asked_question_ids)
          /\ (CalledOn("get_next_question", sid) /\ last'.result = "ok"
                 /\ last'.served # "outstanding" /\ sid \in DOMAIN sessions) =>
                 /\ ~Contains(Stored(sid).asked_question_ids, last'.question_id)
                 /\ StoredNext(sid).asked_question_ids =
                        Append(Stored(sid).asked_question_ids, last'.question_id)]_vars

\* A learner who was served a bank question, a queued one and a review clone.
C31_Witness ==
    /\ last.op = "get_next_question"
    /\ last.served = "review"
    /\ \E sid \in DOMAIN sessions :
          /\ sid = last.session_id
          /\ Len(Stored(sid).asked_question_ids) = 3
          /\ Stored(sid).asked_question_ids[1] # Stored(sid).asked_question_ids[3]
          /\ HasQuestion(questions, Stored(sid).asked_question_ids[1])
          /\ questions[Stored(sid).asked_question_ids[1]].source_session_id = PreviewSessionId

\* C32: a session starts with next_question_source "existing"; in a non-preview session a
\* serve that reuses a bank question leaves next_question_source at "generated"; while it
\* is "generated" a serve of a new question is a queued one, a generated one or a review
\* clone, never a reused one; and answers, review clones and repeats of the outstanding
\* question leave it as it is.
C32_ReuseThenGenerate ==
    [][\A sid \in SummarySessions :
          /\ (CalledOn("start_session", sid) /\ last'.result = "ok") =>
                StoredNext(sid).next_question_source = "existing"
          /\ (/\ sid \in DOMAIN sessions
              /\ ~Stored(sid).is_preview
              /\ CalledOn("get_next_question", sid)
              /\ last'.result = "ok") =>
                /\ last'.served = "existing" =>
                      StoredNext(sid).next_question_source = "generated"
                /\ Stored(sid).next_question_source = "generated" =>
                      last'.served # "existing"
                /\ last'.served \in {"queued", "generated"} =>
                      questions'[last'.question_id].source_session_id = sid
                /\ last'.served \in {"review", "outstanding"} =>
                      StoredNext(sid).next_question_source = Stored(sid).next_question_source
          /\ (/\ sid \in DOMAIN sessions
              /\ sid \in DOMAIN sessions'
              /\ CalledOn("submit_answer", sid)) =>
                StoredNext(sid).next_question_source = Stored(sid).next_question_source]_vars

\* A learner served a reused bank question and then the question queued behind it, while
\* another unused bank question was waiting.
C32_Witness ==
    /\ last.op = "get_next_question"
    /\ last.served = "queued"
    /\ \E sid \in DOMAIN sessions :
          /\ sid = last.session_id
          /\ ~Stored(sid).is_preview
          /\ Len(Stored(sid).asked_question_ids) = 2
          /\ HasQuestion(questions, Stored(sid).asked_question_ids[1])
          /\ questions[Stored(sid).asked_question_ids[1]].source_session_id = PreviewSessionId
          /\ \E q \in DOMAIN questions :
                /\ ~Contains(Stored(sid).asked_question_ids, q)
                /\ q # Stored(sid).queued_question_id

\* C33: in a preview session every question get_next_question serves, other than the
\* outstanding one again, is generated in that call under an id new to the bank, with the
\* session as its source_session_id; the call writes no other question and queues none;
\* and the stored preview session has an empty queue slot and every id of its
\* asked_question_ids in preview_question_ids.
C33_PreviewOnlyGenerates ==
    [][\A sid \in DOMAIN sessions' :
          StoredNext(sid).is_preview =>
              /\ StoredNext(sid).queued_question_id = NoId
              /\ \A i \in 1..Len(StoredNext(sid).asked_question_ids) :
                    Contains(StoredNext(sid).preview_question_ids,
                             StoredNext(sid).asked_question_ids[i])
              /\ (CalledOn("get_next_question", sid) /\ last'.result = "ok"
                     /\ last'.served # "outstanding") =>
                     /\ last'.served = "generated"
                     /\ last'.question_id \notin DOMAIN questions
                     /\ DOMAIN questions' = DOMAIN questions \cup {last'.question_id}
                     /\ questions'[last'.question_id].source_session_id = sid]_vars

\* A preview session that missed its first question and was served two more generated
\* questions, the last one when a review of the missed one would have been due.
C33_Witness ==
    /\ last.op = "get_next_question"
    /\ last.served = "generated"
    /\ \E sid \in DOMAIN sessions :
          /\ sid = last.session_id
          /\ Stored(sid).is_preview
          /\ Len(Stored(sid).asked_question_ids) = 3
          /\ Len(Stored(sid).attempts) = 2
          /\ ~Stored(sid).attempts[1].is_correct
          /\ Stored(sid).missed_question_ids # <<>>
          /\ Stored(sid).preview_question_ids = Stored(sid).asked_question_ids

\* The generations of a get_next_question call on the session, in order.
GenerationLog(sid) ==
    IF CalledOn("get_next_question", sid) /\ last'.result = "ok" THEN last'.generations ELSE <<>>

\* C34: a successful generation under a coverage-reset signal with a non-empty used-slide
\* set leaves at most the generated question's slide id in the set and coverage_cycle one
\* higher; any other generation leaves coverage_cycle alone and only appends to the set;
\* between and outside generations coverage_cycle is unchanged and the set only gains
\* elements; and used_slide_ids never holds a slide id twice.
C34_CoverageReset ==
    [][\A sid \in DOMAIN sessions' :
          /\ NoDuplicates(StoredNext(sid).used_slide_ids)
          /\ (sid \in DOMAIN sessions /\ ~CalledOn("start_session", sid)) =>
                LET log == GenerationLog(sid)
                    before == Stored(sid)
                    after == StoredNext(sid)
                IN /\ \A i \in 1..Len(log) :
                         LET g == log[i]
                             slide_id == questions'[g.question_id].slide_id
                         IN IF g.coverage_reset /\ g.used_before # <<>>
                            THEN /\ g.cycle_after = g.cycle_before + 1
                                 /\ Elements(g.used_after) \subseteq {slide_id} \ {NoText}
                            ELSE /\ g.cycle_after = g.cycle_before
                                 /\ IsPrefix(g.used_before, g.used_after)
                   /\ IF log = <<>>
                      THEN /\ after.coverage_cycle = before.coverage_cycle
                           /\ IsPrefix(before.used_slide_ids, after.used_slide_ids)
                      ELSE /\ log[1].cycle_before = before.coverage_cycle
                           /\ IsPrefix(before.used_slide_ids, log[1].used_before)
                           /\ log[Len(log)].cycle_after = after.coverage_cycle
                           /\ log[Len(log)].used_after = after.used_slide_ids
                           /\ \A i \in 1..(Len(log) - 1) :
                                 /\ log[i + 1].cycle_before = log[i].cycle_after
                                 /\ log[i + 1].used_before = log[i].used_after]_vars

\* A call whose generation ran under a coverage reset with used slides on record and
\* left exactly the new question's slide in the set.
C34_Witness ==
    /\ last.op = "get_next_question"
    /\ last.result = "ok"
    /\ \E i \in 1..Len(last.generations) :
          /\ last.generations[i].coverage_reset
          /\ last.generations[i].used_before # <<>>
          /\ Len(last.generations[i].used_after) = 1
          /\ last.generations[i].cycle_after >= 1

\* A get_next_question call that served a new question to a non-preview session.
LearnerServe(sid) ==
    /\ sid \in DOMAIN sessions
    /\ ~Stored(sid).is_preview
    /\ CalledOn("get_next_question", sid)
    /\ last'.result = "ok"
    /\ last'.served \in NewServes

\* The stored session after an answer that followed a failed pre-generation.
AwaitingOnDemand(sid) ==
    /\ sid \in DOMAIN sessions
    /\ ~Stored(sid).is_preview
    /\ Stored(sid).status = "in_progress"
    /\ Stored(sid).active_question_id = NoId
    /\ Stored(sid).attempts # <<>>
    /\ Stored(sid).next_question_source = "generated"
    /\ Stored(sid).queued_question_id = NoId

\* The served question is returned and stored as the outstanding one whatever becomes
\* of the pre-generation; when the call ends with an empty queue slot although the next
\* question is to be generated (the pre-generation failed), the bank gained at most the
\* served question and the session log shows no second generation.
FailureSwallowed(sid) ==
    LearnerServe(sid) =>
        /\ sid \in DOMAIN sessions'
        /\ StoredNext(sid).active_question_id = last'.question_id
        /\ StoredNext(sid).status = "in_progress"
        /\ StoredNext(sid).asked_question_ids =
               Append(Stored(sid).asked_question_ids, last'.question_id)
        /\ StoredNext(sid).attempts = Stored(sid).attempts
        /\ (/\ StoredNext(sid).next_question_source = "generated"
            /\ StoredNext(sid).queued_question_id = NoId) =>
               /\ DOMAIN questions' \subseteq DOMAIN questions \cup {last'.question_id}
               /\ Len(last'.generations) <= 1

\* C35 as claimed: a failed pre-generation is swallowed, and the next successful
\* get_next_question after the answer generates its question on demand.
C35_OnDemandAfterFailure ==
    [][\A sid \in SessionIds :
          /\ FailureSwallowed(sid)
          /\ (AwaitingOnDemand(sid) /\ CalledOn("get_next_question", sid)
                 /\ last'.result = "ok") =>
                 last'.served = "generated"]_vars

\* C35: a failed pre-generation is swallowed, and the next successful get_next_question
\* after the answer serves the review clone of a missed question when one is due and
\* otherwise generates its question on demand.
C35_OnDemandOrReviewAfterFailure ==
    [][\A sid \in SessionIds :
          /\ FailureSwallowed(sid)
          /\ (AwaitingOnDemand(sid) /\ CalledOn("get_next_question", sid)
                 /\ last'.result = "ok") =>
                 last'.served = IF /\ ResolvingMissed(sid) # {}
                                   /\ Stored(sid).questions_since_review >= missed_review_gap
                                THEN "review" ELSE "generated"]_vars

\* A learner whose second question was generated on demand after the first answer.
C35_Witness ==
    /\ last.op = "get_next_question"
    /\ last.served = "generated"
    /\ \E sid \in DOMAIN sessions :
          /\ sid = last.session_id
          /\ ~Stored(sid).is_preview
          /\ Len(Stored(sid).asked_question_ids) = 2
          /\ Len(Stored(sid).attempts) = 1
          /\ Stored(sid).active_question_id = last.question_id

\* C36: in every stored session, a status other than in_progress comes with empty
\* active_question_id and queued_question_id, and a set active_question_id is the last
\* element of asked_question_ids and has no attempt on record.
C36_OutstandingIsUnanswered ==
    \A sid \in DOMAIN sessions :
        LET record == Stored(sid)
        IN /\ record.status # "in_progress" =>
                 /\ record.active_question_id = NoId
                 /\ record.queued_question_id = NoId
           /\ record.active_question_id # NoId =>
                 /\ record.asked_question_ids # <<>>
                 /\ record.asked_question_ids[Len(record.asked_question_ids)] =
                        record.active_question_id
                 /\ \A i \in 1..Len(record.attempts) :
                        record.attempts[i].question_id # record.active_question_id

\* C37: a question served to a non-preview session is in no stored preview session's
\* preview_question_ids, and a step that removes a question from the bank removes none
\* that a session still stored after the step has in its asked_question_ids or attempts.
C37_PreviewQuestionsStayPrivate ==
    [][/\ \A sid \in SessionIds :
             LearnerServe(sid) =>
                 \A other \in DOMAIN sessions :
                     Stored(other).is_preview =>
                         ~Contains(Stored(other).preview_question_ids, last'.question_id)
       /\ \A q \in DOMAIN questions \ DOMAIN questions' :
             \A sid \in DOMAIN sessions' :
                 /\ ~Contains(StoredNext(sid).asked_question_ids, q)
                 /\ \A i \in 1..Len(StoredNext(sid).attempts) :
                        StoredNext(sid).attempts[i].question_id # q]_vars

\* Both requests were for the same question of the same session, both loaded the session
\* before it held an attempt for the question, and both were accepted.
BothAccepted ==
    /\ DOMAIN inflight = Requests
    /\ \A request \in Requests :
          /\ inflight[request].phase = "done"
          /\ inflight[request].result = "ok"
          /\ ~already_answered(inflight[request].record, inflight[request].question_id)
    /\ \A r1, r2 \in Requests :
          /\ inflight[r1].session_id = inflight[r2].session_id
          /\ inflight[r1].question_id = inflight[r2].question_id

\* C38: whatever the interleaving of two submit_answer requests, every stored session
\* has len(attempts) = attempts_used and at most one attempt per question; in particular
\* when both requests for one question were accepted the session holds one attempt for it.
C38_RetryNotDoubleCounted ==
    /\ \A sid \in DOMAIN sessions :
          /\ Len(Stored(sid).attempts) = Stored(sid).attempts_used
          /\ \A i, j \in 1..Len(Stored(sid).attempts) :
                Stored(sid).attempts[i].question_id = Stored(sid).attempts[j].question_id => i = j
    /\ BothAccepted =>
          \A request \in Requests :
              inflight[request].session_id \in DOMAIN sessions =>
                  Cardinality({i \in 1..Len(Stored(inflight[request].session_id).attempts) :
                                  Stored(inflight[request].session_id).attempts[i].question_id
                                      = inflight[request].question_id}) = 1

\* Both requests accepted although they gave different answers; one attempt is stored.
C38_Witness ==
    /\ BothAccepted
    /\ inflight["first"].selected_answer # inflight["retry"].selected_answer
    /\ inflight["first"].session_id \in DOMAIN sessions
    /\ Len(Stored(inflight["first"].session_id).attempts) = 1

\* No stored session has a question waiting in its missed queue.
NothingMissed ==
    \A sid \in DOMAIN sessions : Stored(sid).missed_question_ids = <<>>

\* A step takes a question out of a missed queue only by serving its review clone, and
\* the question taken is the one that waited longest.
LeavesByReview ==
    \A sid \in DOMAIN sessions \cap DOMAIN sessions' :
        LET queue == Stored(sid).missed_question_ids
        IN \A i \in 1..Len(queue) :
              ~Contains(StoredNext(sid).missed_question_ids, queue[i]) =>
                  /\ i = 1
                  /\ CalledOn("get_next_question", sid)
                  /\ last'.served = "review"
                  /\ last'.question_id # queue[i]
                  /\ StoredNext(sid).active_question_id = last'.question_id
                  /\ questions'[last'.question_id] =
                         [questions[queue[i]] EXCEPT !.question_id = last'.question_id]

C40_AssessmentServesAtMostN ==
    \A sid \in DOMAIN sessions :
        LET record == Stored(sid)
        IN (/\ ~record.is_preview
            /\ record.mode = "assessment"
            /\ record.quiz_id \in DOMAIN definitions
            /\ definitions[record.quiz_id].assessment_num_questions # NoCount
            /\ definitions[record.quiz_id].assessment_num_questions >= 1) =>
               Len(record.asked_question_ids) <= definitions[record.quiz_id].assessment_num_questions

====
